---- MODULE Spec2Model ----
(***************************************************************************)
(* Model of the order API of sanpaholmes (api/compras.js, api/productos.js) *)
(* over a PostgreSQL database at its default isolation level, READ         *)
(* COMMITTED: a statement sees the rows committed when it starts plus the   *)
(* writes of its own transaction; a row written by an open transaction is   *)
(* locked against other writers until that transaction ends; sequences      *)
(* (SERIAL ids) are not rolled back.                                        *)
(*                                                                         *)
(* Every `await client.query(...)` of a handler is one step: the statement  *)
(* runs against the database and the handler's synchronous code runs up to  *)
(* the next await.                                                          *)
(***************************************************************************)
EXTENDS Integers, Sequences, FiniteSets, TLC

VARIABLES
    productos,      \* table productos: id -> [precio, stock, activo] (committed)
    compras,        \* table compras: id -> row (committed)
    detalle_compra, \* table detalle_compra: set of rows (committed)
    seqCompras,     \* last value of compras_id_seq
    seqDetalle,     \* last value of detalle_compra_id_seq
    pc,             \* per request slot: position of the handler
    req,            \* per request slot: the request (body, file, params)
    loc,            \* per request slot: the handler's local variables
    tx,             \* per request slot: uncommitted writes of client's transaction
    res,            \* per request slot: the HTTP response sent (status 0 = none yet)
    antes,          \* history: committed tables when the request started
    falloEn,        \* history: statement (and loop index) the database rejected
    stockInicial,   \* history: stock of every product in the initial state
    bitacora,       \* history: the administrative requests answered so far
    variante,       \* client: which of the two AuthProvider components is mounted
    user,           \* client: the state `user` of AuthProvider
    loading,        \* client: the state `loading` of AuthProvider
    localStorage,   \* client: the browser's localStorage, key -> string
    enVuelo,        \* client: the calls of login() that await the server
    ultimo          \* history: the last operation of the session and what it found

\* the client session
sesion == <<variante, user, loading, localStorage, enVuelo, ultimo>>

vars == <<productos, compras, detalle_compra, seqCompras, seqDetalle,
          pc, req, loc, tx, res, antes, falloEn, stockInicial, bitacora, sesion>>

db == <<productos, compras, detalle_compra>>

----------------------------------------------------------------------------
(* Bounds of the model *)

\* largest stock of a product in an initial catalog
MaxStock == 2
\* largest number of line items of a request
MaxItems == 2
\* a product id that is not in the catalog
IdInexistente == 3

\* largest number of administrative requests in a behaviour
MaxOperaciones == 2
\* largest number of edits of the catalog while a request runs
MaxEdiciones == 1
\* the prices a product may have
Precios == {1, 2}
\* the catalog holds two products
IdsProducto == {1, 2}
\* product ids a request may name: the catalog's and one that does not exist
IdsPedidos == IdsProducto \cup {IdInexistente}
\* quantities a request may name: from -1 to one more than any initial stock
Cantidades == {-1} \cup 1..(MaxStock + 1)

----------------------------------------------------------------------------
(* JavaScript values *)

\* undefined / null / absent
Nada == <<>>
Algo(x) == <<x>>

JsNull == [t |-> "null", v |-> 0]
JsNaN == [t |-> "nan", v |-> 0]
JsNum(n) == [t |-> "num", v |-> n]
JsBool(b) == [t |-> "bool", v |-> b]
JsStr(x) == [t |-> "string", v |-> x]

\* truthiness of a number-or-null: null, NaN and 0 are falsy
Truthy(x) == x.t = "num" /\ x.v # 0

\* truthiness of an optional string: undefined and "" are falsy
TruthyStr(s) == s # Nada /\ s[1] # ""

DigitVal == ("0" :> 0) @@ ("1" :> 1) @@ ("2" :> 2) @@ ("3" :> 3) @@ ("4" :> 4)
            @@ ("5" :> 5) @@ ("6" :> 6) @@ ("7" :> 7) @@ ("8" :> 8) @@ ("9" :> 9)

RECURSIVE LeadingDigits(_)
\* the longest prefix of digits of a sequence of characters
LeadingDigits(s) ==
    IF s = <<>> \/ Head(s) \notin DOMAIN DigitVal THEN <<>>
    ELSE <<Head(s)>> \o LeadingDigits(Tail(s))

RECURSIVE DigitsValue(_, _)
DigitsValue(s, acc) ==
    IF s = <<>> THEN acc ELSE DigitsValue(Tail(s), 10 * acc + DigitVal[Head(s)])

\* parseInt(string): optional sign, then the leading digits; NaN when none.
\* A string is a sequence of one-character strings.
ParseInt(s) ==
    LET neg == s # <<>> /\ Head(s) = "-"
        rest == IF s # <<>> /\ Head(s) \in {"-", "+"} THEN Tail(s) ELSE s
        ds == LeadingDigits(rest)
    IN IF ds = <<>> THEN JsNaN
       ELSE JsNum(IF neg THEN 0 - DigitsValue(ds, 0) ELSE DigitsValue(ds, 0))

----------------------------------------------------------------------------
(* POST /api/compras: the synchronous validation of the request *)

MesaMin == 1
MesaMax == 50

\* const mesaNormalizada = comprador_mesa && comprador_mesa !== '' ? parseInt(comprador_mesa) : null
mesaNormalizada(comprador_mesa) ==
    IF comprador_mesa # Nada /\ comprador_mesa[1] # <<>>
    THEN ParseInt(comprador_mesa[1])
    ELSE JsNull

\* if (mesaNormalizada && (mesaNormalizada < 1 || mesaNormalizada > 50))
MesaFueraDeRango(m) == Truthy(m) /\ (m.v < MesaMin \/ m.v > MesaMax)

MetodosDePago == {"efectivo", "transferencia"}

\* the check of lines 82-87 left out
FaltaComprobanteNunca(metodo_pago, file) == FALSE

\* if (metodo_pago === 'transferencia' && !req.file)
FaltaComprobante(metodo_pago, file) ==
    metodo_pago = Algo("transferencia") /\ file = Nada

\* The checks of lines 58-105 in order; "ok" when the request passes them all.
ValidarCampos(r) ==
    IF ~TruthyStr(r.comprador_nombre) \/ ~TruthyStr(r.metodo_pago)
        THEN "faltan_datos"
    ELSE IF MesaFueraDeRango(mesaNormalizada(r.comprador_mesa))
        THEN "mesa_rango"
    ELSE IF r.metodo_pago[1] \notin MetodosDePago
        THEN "metodo_pago"
    ELSE IF FaltaComprobante(r.metodo_pago, r.file)
        THEN "comprobante"
    ELSE IF r.productos.forma = "json_invalido"
        THEN "formato_productos"
    ELSE IF r.productos.forma # "array" \/ Len(r.productos.items) = 0
        THEN "sin_productos"
    ELSE "ok"

\* limits.fileSize of upload.single('comprobante'): larger files never reach the handler
TamMaxArchivo == 3 * 1024 * 1024
\* if (comprobante_archivo.length > 10 * 1024 * 1024)
LargoMaxBase64 == 10 * 1024 * 1024

\* length of `data:${mimetype};base64,${buffer.toString('base64')}`
LargoComprobante(file) ==
    Len("data:") + file.mimetypeLen + Len(";base64,") + 4 * ((file.size + 2) \div 3)

ArchivoDemasiadoGrande(file) ==
    file # Nada /\ LargoComprobante(file[1]) > LargoMaxBase64

----------------------------------------------------------------------------
(* The database as a transaction sees it *)

\* The uncommitted writes of a transaction: the rows of productos it has
\* updated, the rows of compras and detalle_compra it has inserted, the ids of
\* the rows of detalle_compra it has deleted, the totals it has set.
SinTx == [activa |-> FALSE, prod |-> <<>>, compras |-> <<>>, detalle |-> {},
          borrados |-> {}, totales |-> <<>>]

\* the row of product p that a statement of slot c reads
LeerProducto(c, p) ==
    IF p \in DOMAIN tx[c].prod THEN tx[c].prod[p] ELSE productos[p]

\* another open transaction has written row p of productos
Bloqueado(c, p) == \E d \in DOMAIN pc \ {c} : p \in DOMAIN tx[d].prod

\* the lookup without its `AND activo = true`
BuscarProductoSinFiltro(c, p) ==
    IF p \in DOMAIN productos THEN Algo(LeerProducto(c, p)) ELSE Nada

\* SELECT ... FROM productos WHERE id = $1 AND activo = true
BuscarProductoActivo(c, p) ==
    IF p \in DOMAIN productos /\ LeerProducto(c, p).activo
    THEN Algo(LeerProducto(c, p)) ELSE Nada

\* the comparison off by one
StockInsuficienteMasUno(stock, cantidad) == stock + 1 < cantidad

\* if (producto.rows[0].stock < cantidad)
StockInsuficiente(stock, cantidad) == stock < cantidad

\* a decrement by one unit whatever the quantity
NuevoStockUnaUnidad(stock, cantidad) == stock - 1

\* UPDATE productos SET stock = stock - $1
NuevoStock(stock, cantidad) == stock - cantidad

\* The amount charged for a quantity forgets the quantity.
ImporteSinCantidad(precio, cantidad) == precio

\* producto.rows[0].precio * item.cantidad (line 143); precio_unitario * cantidad (line 196)
Importe(precio, cantidad) == precio * cantidad

RECURSIVE SumaSubtotales(_)
SumaSubtotales(filas) ==
    IF filas = {} THEN 0
    ELSE LET f == CHOOSE x \in filas : TRUE
         IN f.subtotal + SumaSubtotales(filas \ {f})

RECURSIVE SumaCantidades(_)
SumaCantidades(filas) ==
    IF filas = {} THEN 0
    ELSE LET f == CHOOSE x \in filas : TRUE
         IN f.cantidad + SumaCantidades(filas \ {f})

DetallesDe(tabla, id) == {d \in tabla : d.compra_id = id}
DetallesDeProducto(tabla, p) == {d \in tabla : d.producto_id = p}

----------------------------------------------------------------------------
(* Requests *)

SinRespuesta == [status |-> 0, mensaje |-> ""]
Respuesta(status, mensaje) == [status |-> status, mensaje |-> mensaje]

SinPedido == [tipo |-> "ninguno"]
\* no statement of the request has been rejected
NingunFallo == [en |-> "", i |-> 0]

\* the locals of a handler; leidos and liberaciones are no locals of the
\* code: leidos keeps the prices that the loop of lines 138-144 read, one per
\* line item, and liberaciones counts the calls of client.release()
SinLocales == [i |-> 0, total |-> 0, compraId |-> 0, precio_unitario |-> 0,
               nuevoTotal |-> 0, pendiente |-> SinRespuesta, leidos |-> <<>>,
               liberaciones |-> 0]

\* finally { client.release() }: the locals of a handler that has ended
AlTerminar(l) ==
    [SinLocales EXCEPT !.compraId = l.compraId, !.liberaciones = l.liberaciones + 1]

Item(p, q) == [producto_id |-> p, cantidad |-> q]

\* req.body.productos after JSON.parse: a parse error, a value that is no
\* array, or an array of {producto_id, cantidad}
ProductosInvalido == [forma |-> "json_invalido", items |-> <<>>]
ProductosNoArray == [forma |-> "no_array", items |-> <<>>]
ProductosArray(items) == [forma |-> "array", items |-> items]

PedidoCrear(nombre, telefono, mesa, metodo, file, prods) ==
    [tipo |-> "crear", comprador_nombre |-> nombre, comprador_telefono |-> telefono,
     comprador_mesa |-> mesa, metodo_pago |-> metodo, file |-> file,
     productos |-> prods]

Instantanea == [productos |-> productos, compras |-> compras,
                detalle_compra |-> detalle_compra]

----------------------------------------------------------------------------
(* The client session: AuthProvider of context/AuthContext.tsx *)

\* the tuple of the tables and of the request slots
tienda == <<productos, compras, detalle_compra, seqCompras, seqDetalle,
            pc, req, loc, tx, res, antes, falloEn, stockInicial, bitacora>>

\* localStorage.getItem(k): null when the key is absent
getItem(ls, k) == IF k \in DOMAIN ls THEN Algo(ls[k]) ELSE Nada
\* localStorage.setItem(k, v)
setItem(ls, k, v) == [x \in DOMAIN ls \cup {k} |-> IF x = k THEN v ELSE ls[x]]
\* localStorage.removeItem(k)
removeItem(ls, k) == [x \in DOMAIN ls \ {k} |-> ls[x]]

\* { username: data.usuario.username,
\*   role: data.usuario.roles.includes('admin') ? 'admin' : 'vendor' }
UserData(usuario) ==
    [username |-> usuario.username,
     role |-> IF "admin" \in usuario.roles THEN "admin" ELSE "vendor"]

\* JSON.stringify(userData): the text, as its sequence of tokens
JsonStringify(u) == <<"{", "username", u.username, "role", u.role, "}">>

\* JSON.parse(text): the value, or nothing when the text is no JSON (it throws)
JsonParse(texto) ==
    IF /\ Len(texto) = 6
       /\ texto[1] = "{" /\ texto[2] = "username" /\ texto[4] = "role" /\ texto[6] = "}"
    THEN Algo([username |-> texto[3], role |-> texto[5]])
    ELSE Nada

\* the users the server knows, with their roles
Usuarios == [ana |-> {"admin"}, leo |-> {"vendedor"}]

\* the arguments of login(): a known username and whether the password is right
CredencialesLogin == {[username |-> u, correcta |-> b] : u \in DOMAIN Usuarios, b \in BOOLEAN}

\* what `await fetch(...)` and `await response.json()` give for a credential:
\* an exception (the network fails or the body is no JSON), or the data of
\* the server: {success, token, usuario} for a right password, {success:
\* false} for a wrong one
FalloDeRed == [red |-> FALSE]
RespuestasLogin(cred) ==
    {FalloDeRed,
     IF cred.correcta
     THEN [red |-> TRUE, success |-> TRUE, token |-> Algo(<<"jwt", cred.username>>),
           usuario |-> [username |-> cred.username, roles |-> Usuarios[cred.username]]]
     ELSE [red |-> TRUE, success |-> FALSE, token |-> Nada]}

NingunaOperacion ==
    [op |-> "ninguna", ok |-> TRUE, userAntes |-> Nada, lsAntes |-> <<>>]
\* the record of an operation of the session: its name, what it returned and
\* what it found
Operacion(op, ok) == [op |-> op, ok |-> ok, userAntes |-> user, lsAntes |-> localStorage]

\* no session: the provider of lines 14-84 is mounted, restored, on an empty storage
SinSesion ==
    /\ variante = "actual"
    /\ user = Nada
    /\ loading = FALSE
    /\ localStorage = <<>>
    /\ enVuelo = {}
    /\ ultimo = NingunaOperacion

\* logout() that clears the storage and keeps the user in memory
LogoutSinOlvidar ==
    /\ localStorage' = removeItem(removeItem(localStorage, "token"), "user")
    /\ user' = user
    /\ ultimo' = Operacion("logout", TRUE)
    /\ UNCHANGED <<tienda, variante, loading, enVuelo>>

\* useEffect(() => {...}, []) of lines 19-34: the restore of the session,
\* once after the provider is mounted
Restaurar ==
    /\ variante = "actual"
    /\ loading
    /\ LET token == getItem(localStorage, "token")
           savedUser == getItem(localStorage, "user")
       IN IF token # Nada /\ savedUser # Nada
          THEN IF JsonParse(savedUser[1]) # Nada
               THEN /\ user' = JsonParse(savedUser[1])
                    /\ localStorage' = localStorage
               ELSE /\ user' = user
                    /\ localStorage' = removeItem(removeItem(localStorage, "token"), "user")
          ELSE /\ user' = user
               /\ localStorage' = localStorage
    /\ loading' = FALSE
    /\ ultimo' = Operacion("restore", TRUE)
    /\ UNCHANGED <<tienda, variante, enVuelo>>

\* login(username, password) up to `await fetch(...)`
LoginEnviar(cred) ==
    /\ cred \notin enVuelo
    /\ enVuelo' = enVuelo \cup {cred}
    /\ UNCHANGED <<tienda, variante, user, loading, localStorage, ultimo>>

\* login() from the answer of the server to its return (lines 47-69; lines
\* 119-138 in the earlier variant, which does not store the user)
LoginRecibir(cred) ==
    /\ cred \in enVuelo
    /\ \E data \in RespuestasLogin(cred) :
          IF data.red /\ data.success /\ data.token # Nada
          THEN /\ user' = Algo(UserData(data.usuario))
               /\ localStorage' =
                     IF variante = "actual"
                     THEN setItem(setItem(localStorage, "token", data.token[1]),
                                  "user", JsonStringify(UserData(data.usuario)))
                     ELSE setItem(localStorage, "token", data.token[1])
               /\ ultimo' = Operacion("login", TRUE)
          ELSE /\ user' = user
               /\ localStorage' = localStorage
               /\ ultimo' = Operacion("login", FALSE)
    /\ enVuelo' = enVuelo \ {cred}
    /\ UNCHANGED <<tienda, variante, loading>>

\* logout() of lines 72-77 (lines 141-145 in the earlier variant, which
\* removes the token only)
Logout ==
    /\ localStorage' =
          IF variante = "actual"
          THEN removeItem(removeItem(localStorage, "token"), "user")
          ELSE removeItem(localStorage, "token")
    /\ user' = Nada
    /\ ultimo' = Operacion("logout", TRUE)
    /\ UNCHANGED <<tienda, variante, loading, enVuelo>>

\* the page is loaded again: the provider is mounted with its initial state
\* (useState(null), useState(true)) and the calls in flight are abandoned;
\* localStorage stays
Recargar ==
    /\ user' = Nada
    /\ loading' = (variante = "actual")
    /\ enVuelo' = {}
    /\ ultimo' = Operacion("reload", TRUE)
    /\ UNCHANGED <<tienda, variante, localStorage>>

----------------------------------------------------------------------------
(* POST /api/compras *)

\* const client = await pool.connect(); the validation of lines 45-105
IniciarCompra(c, Pedidos) ==
    /\ pc[c] = "idle"
    /\ \E r \in Pedidos :
        /\ req' = [req EXCEPT ![c] = r]
        /\ IF ValidarCampos(r) = "ok"
           THEN /\ pc' = [pc EXCEPT ![c] = "begin"]
                /\ res' = [res EXCEPT ![c] = SinRespuesta]
                /\ loc' = [loc EXCEPT ![c] = SinLocales]
           ELSE /\ pc' = [pc EXCEPT ![c] = "done"]
                /\ res' = [res EXCEPT ![c] = Respuesta(400, ValidarCampos(r))]
                /\ loc' = [loc EXCEPT ![c] = AlTerminar(SinLocales)]
    /\ tx' = [tx EXCEPT ![c] = SinTx]
    /\ antes' = [antes EXCEPT ![c] = Instantanea]
    /\ falloEn' = [falloEn EXCEPT ![c] = NingunFallo]
    /\ UNCHANGED <<db, seqCompras, seqDetalle, stockInicial, sesion, bitacora>>

\* await client.query('BEGIN')
Begin(c) ==
    /\ pc[c] = "begin"
    /\ tx' = [tx EXCEPT ![c].activa = TRUE]
    /\ loc' = [loc EXCEPT ![c].i = 1]
    /\ pc' = [pc EXCEPT ![c] = "validar"]
    /\ UNCHANGED <<db, seqCompras, seqDetalle, req, res, antes, falloEn, stockInicial, sesion, bitacora>>

\* one iteration of the loop of lines 111-134
ValidarStock(c) ==
    /\ pc[c] = "validar"
    /\ LET items == req[c].productos.items
           item == items[loc[c].i]
           producto == BuscarProductoActivo(c, item.producto_id)
       IN IF producto = Nada
          THEN /\ pc' = [pc EXCEPT ![c] = "rollback"]
               /\ loc' = [loc EXCEPT ![c].pendiente = Respuesta(404, "producto_no_existe")]
          ELSE IF StockInsuficiente(producto[1].stock, item.cantidad)
          THEN /\ pc' = [pc EXCEPT ![c] = "rollback"]
               /\ loc' = [loc EXCEPT ![c].pendiente = Respuesta(400, "stock_insuficiente")]
          ELSE IF loc[c].i < Len(items)
          THEN /\ pc' = pc
               /\ loc' = [loc EXCEPT ![c].i = @ + 1]
          ELSE /\ pc' = [pc EXCEPT ![c] = "total"]
               /\ loc' = [loc EXCEPT ![c].i = 1, ![c].total = 0]
    /\ UNCHANGED <<db, seqCompras, seqDetalle, req, tx, res, antes, falloEn, stockInicial, sesion, bitacora>>

\* one iteration of the loop of lines 138-144, and after its last one the
\* conversion of the file (lines 148-174)
CalcularTotal(c) ==
    /\ pc[c] = "total"
    /\ LET items == req[c].productos.items
           item == items[loc[c].i]
           precio == LeerProducto(c, item.producto_id).precio
           total == loc[c].total + Importe(precio, item.cantidad)
       IN IF loc[c].i < Len(items)
          THEN /\ pc' = pc
               /\ loc' = [loc EXCEPT ![c].i = @ + 1, ![c].total = total,
                                     ![c].leidos = Append(@, precio)]
          ELSE IF ArchivoDemasiadoGrande(req[c].file)
          THEN /\ pc' = [pc EXCEPT ![c] = "rollback"]
               /\ loc' = [loc EXCEPT ![c].total = total,
                                     ![c].leidos = Append(@, precio),
                                     ![c].pendiente = Respuesta(400, "archivo_grande")]
          ELSE /\ pc' = [pc EXCEPT ![c] = "insert_compra"]
               /\ loc' = [loc EXCEPT ![c].total = total,
                                     ![c].leidos = Append(@, precio)]
    /\ UNCHANGED <<db, seqCompras, seqDetalle, req, tx, res, antes, falloEn, stockInicial, sesion, bitacora>>

\* the row of lines 177-182
FilaCompra(r, total) ==
    LET m == mesaNormalizada(r.comprador_mesa)
    IN [comprador_nombre |-> r.comprador_nombre[1],
        comprador_telefono |-> IF TruthyStr(r.comprador_telefono)
                               THEN r.comprador_telefono ELSE Nada,
        comprador_mesa |-> IF m.t = "num" THEN Algo(m.v) ELSE Nada,
        metodo_pago |-> r.metodo_pago[1],
        comprobante_archivo |-> IF r.file = Nada THEN Nada
                                ELSE Algo(LargoComprobante(r.file[1])),
        total |-> total,
        \* columns the INSERT does not name take their defaults
        abonado |-> FALSE, listo |-> FALSE, entregado |-> FALSE]

\* INSERT INTO compras ... RETURNING *
InsertarCompra(c) ==
    /\ pc[c] = "insert_compra"
    /\ seqCompras' = seqCompras + 1
    /\ IF mesaNormalizada(req[c].comprador_mesa).t = "nan"
       THEN \* NaN is no value of the integer column: the statement throws
            /\ pc' = [pc EXCEPT ![c] = "rollback"]
            /\ loc' = [loc EXCEPT ![c].pendiente = Respuesta(500, "error_compra")]
            /\ tx' = tx
       ELSE /\ pc' = [pc EXCEPT ![c] = "sel_precio"]
            /\ loc' = [loc EXCEPT ![c].compraId = seqCompras + 1, ![c].i = 1]
            /\ tx' = [tx EXCEPT ![c].compras =
                        (seqCompras + 1) :> FilaCompra(req[c], loc[c].total)]
    /\ UNCHANGED <<db, seqDetalle, req, res, antes, falloEn, stockInicial, sesion, bitacora>>

\* SELECT precio FROM productos WHERE id = $1 (lines 190-195)
LeerPrecio(c) ==
    /\ pc[c] = "sel_precio"
    /\ LET item == req[c].productos.items[loc[c].i]
       IN loc' = [loc EXCEPT ![c].precio_unitario =
                      LeerProducto(c, item.producto_id).precio]
    /\ pc' = [pc EXCEPT ![c] = "ins_detalle"]
    /\ UNCHANGED <<db, seqCompras, seqDetalle, req, tx, res, antes, falloEn, stockInicial, sesion, bitacora>>

\* INSERT INTO detalle_compra (lines 196-203)
InsertarDetalle(c) ==
    /\ pc[c] = "ins_detalle"
    /\ seqDetalle' = seqDetalle + 1
    /\ LET item == req[c].productos.items[loc[c].i]
           precio_unitario == loc[c].precio_unitario
           subtotal == Importe(precio_unitario, item.cantidad)
       IN tx' = [tx EXCEPT ![c].detalle = @ \cup
                   {[id |-> seqDetalle + 1, compra_id |-> loc[c].compraId,
                     producto_id |-> item.producto_id, cantidad |-> item.cantidad,
                     precio_unitario |-> precio_unitario, subtotal |-> subtotal]}]
    /\ pc' = [pc EXCEPT ![c] = "upd_stock"]
    /\ UNCHANGED <<db, seqCompras, req, loc, res, antes, falloEn, stockInicial, sesion, bitacora>>

\* The write sent through the pool instead of the transaction's client: it
\* is committed at once.
EscribirProductoAutocommit(c, p, fila) ==
    [tx |-> tx[c], productos |-> [productos EXCEPT ![p] = fila]]

\* A write of row p of productos by the transaction of slot c: what the
\* transaction holds and what is committed afterwards.
EscribirProducto(c, p, fila) ==
    [tx |-> [tx[c] EXCEPT !.prod = (p :> fila) @@ @], productos |-> productos]

\* UPDATE productos SET stock = stock - $1 WHERE id = $2 (lines 206-209);
\* it waits while another transaction holds the row
DescontarStock(c) ==
    /\ pc[c] = "upd_stock"
    /\ LET items == req[c].productos.items
           item == items[loc[c].i]
           p == item.producto_id
           fila == LeerProducto(c, p)
           w == EscribirProducto(c, p,
                    [fila EXCEPT !.stock = NuevoStock(fila.stock, item.cantidad)])
       IN /\ ~Bloqueado(c, p)
          /\ tx' = [tx EXCEPT ![c] = w.tx]
          /\ productos' = w.productos
          /\ IF loc[c].i < Len(items)
             THEN /\ pc' = [pc EXCEPT ![c] = "sel_precio"]
                  /\ loc' = [loc EXCEPT ![c].i = @ + 1]
             ELSE /\ pc' = [pc EXCEPT ![c] = "commit"]
                  /\ loc' = loc
    /\ UNCHANGED <<compras, detalle_compra, seqCompras, seqDetalle, req, res,
                   antes, falloEn, stockInicial, sesion, bitacora>>

\* The handler has returned: of its locals only the id of the order it
\* inserted (compra.rows[0].id, sent in the response) is kept.

\* The tables after the transaction t commits.
Confirmar(t) ==
    [productos |-> [p \in DOMAIN productos |->
                        IF p \in DOMAIN t.prod THEN t.prod[p] ELSE productos[p]],
     compras |-> t.compras @@
                 [id \in DOMAIN compras |->
                     IF id \in DOMAIN t.totales
                     THEN [compras[id] EXCEPT !.total = t.totales[id]]
                     ELSE compras[id]],
     detalle_compra |-> {d \in detalle_compra : d.id \notin t.borrados} \cup t.detalle]

\* await client.query('COMMIT'); res.status(201); finally client.release()
CommitCompra(c) ==
    /\ pc[c] = "commit"
    /\ productos' = Confirmar(tx[c]).productos
    /\ compras' = Confirmar(tx[c]).compras
    /\ detalle_compra' = Confirmar(tx[c]).detalle_compra
    /\ tx' = [tx EXCEPT ![c] = SinTx]
    /\ res' = [res EXCEPT ![c] = Respuesta(201, "ok")]
    /\ pc' = [pc EXCEPT ![c] = "done"]
    /\ loc' = [loc EXCEPT ![c] = AlTerminar(loc[c])]
    /\ UNCHANGED <<seqCompras, seqDetalle, req, antes, falloEn, stockInicial, sesion, bitacora>>

\* The catch block sends COMMIT instead of ROLLBACK.
RollbackConfirma(c) ==
    /\ pc[c] = "rollback"
    /\ productos' = Confirmar(tx[c]).productos
    /\ compras' = Confirmar(tx[c]).compras
    /\ detalle_compra' = Confirmar(tx[c]).detalle_compra
    /\ tx' = [tx EXCEPT ![c] = SinTx]
    /\ res' = [res EXCEPT ![c] = loc[c].pendiente]
    /\ pc' = [pc EXCEPT ![c] = "done"]
    /\ loc' = [loc EXCEPT ![c] = AlTerminar(loc[c])]
    /\ UNCHANGED <<seqCompras, seqDetalle, req, antes, falloEn, stockInicial, sesion, bitacora>>

\* await client.query('ROLLBACK'), then the response the handler had chosen;
\* finally client.release()
Rollback(c) ==
    /\ pc[c] = "rollback"
    /\ tx' = [tx EXCEPT ![c] = SinTx]
    /\ res' = [res EXCEPT ![c] = loc[c].pendiente]
    /\ pc' = [pc EXCEPT ![c] = "done"]
    /\ loc' = [loc EXCEPT ![c] = AlTerminar(loc[c])]
    /\ UNCHANGED <<db, seqCompras, seqDetalle, req, antes, falloEn, stockInicial, sesion, bitacora>>

SentenciasCompra == {"begin", "validar", "total", "insert_compra", "sel_precio",
                     "ins_detalle", "upd_stock", "commit"}

\* A statement of the try block is rejected by the database (a constraint, a
\* deadlock, a cancelled statement) on a connection that stays usable: the
\* catch block of lines 221-231 runs.
FallaSentencia(c) ==
    /\ pc[c] \in SentenciasCompra
    /\ falloEn' = [falloEn EXCEPT ![c] = [en |-> pc[c], i |-> loc[c].i]]
    /\ loc' = [loc EXCEPT ![c].pendiente = Respuesta(500, "error_compra")]
    /\ pc' = [pc EXCEPT ![c] = "rollback"]
    /\ UNCHANGED <<db, seqCompras, seqDetalle, req, tx, res, antes, stockInicial, sesion, bitacora>>

----------------------------------------------------------------------------
(* The Auth Gate and the log of the administrative requests *)

Credencial(valido, permisos) == [valido |-> valido, permisos |-> permisos]

Permisos == {"ver_compras", "editar_compras", "eliminar_compras", "gestionar_productos"}

\* a valid token of a user that holds every permission
CredAdmin == Credencial(TRUE, Permisos)

\* The route of the line-item replacement is registered without the two
\* middlewares.
PermisoDeReemplazoLibre(op) ==
    CASE op \in {"get_compras", "get_compra", "get_estadisticas"} -> Algo("ver_compras")
      [] op \in {"patch_estado", "put_compra"} -> Algo("editar_compras")
      [] op = "delete_compra" -> Algo("eliminar_compras")
      [] op \in {"post_producto", "put_producto", "delete_producto"} ->
            Algo("gestionar_productos")
      [] OTHER -> Nada

\* The permission the middleware chain of a route names; Nada for a route
\* registered without verificarAutenticacion and verificarPermiso.
PermisoDe(op) ==
    CASE op \in {"get_compras", "get_compra", "get_estadisticas"} -> Algo("ver_compras")
      [] op \in {"put_productos_compra", "patch_estado", "put_compra"} -> Algo("editar_compras")
      [] op = "delete_compra" -> Algo("eliminar_compras")
      [] op \in {"post_producto", "put_producto", "delete_producto"} ->
            Algo("gestionar_productos")
      [] OTHER -> Nada

\* verificarAutenticacion, then verificarPermiso(permiso): 200 when the
\* handler may run, otherwise the status the gate answers with.
AuthGate(cred, permiso) ==
    IF permiso = Nada THEN 200
    ELSE IF ~cred.valido THEN 401
    ELSE IF permiso[1] \notin cred.permisos THEN 403
    ELSE 200

\* an administrative request and the status it was answered with
Peticion(op, cred, id, body, status) ==
    [op |-> op, cred |-> cred, id |-> id, body |-> body, status |-> status,
     datos |-> Nada]

\* the request, answered with rows of the database
ConDatos(e, datos) == [e EXCEPT !.datos = Algo(datos)]

\* res.status(...).json(...): the response is sent
Registrar(e) ==
    /\ Len(bitacora) < MaxOperaciones
    /\ bitacora' = Append(bitacora, e)

SinCuerpo == [vacio |-> TRUE]

----------------------------------------------------------------------------
(* PUT /api/compras/:id/productos *)

ItemReemplazo(p, q, u, st) ==
    [producto_id |-> p, cantidad |-> q, precio_unitario |-> u, subtotal |-> st]

PedidoReemplazarCon(cred, id, prods) ==
    [tipo |-> "reemplazar", cred |-> cred, id |-> id, productos |-> prods]

\* the request of an administrator that holds every permission
PedidoReemplazar(id, prods) == PedidoReemplazarCon(CredAdmin, id, prods)

\* parseFloat of a value of the JSON body: a number is itself; of a string
\* (without decimal point or exponent) the optional sign and leading digits
\* count, NaN when there are none
ParseFloat(x) == IF x.t = "num" THEN x ELSE ParseInt(x.v)

\* The value a numeric column takes from a parameter: a number is itself; a
\* string must be digits from end to end (with an optional sign), otherwise
\* the statement is rejected (Nada).
ANumerico(x) ==
    IF x.t = "num" THEN Algo(x.v)
    ELSE LET rest == IF x.v # <<>> /\ Head(x.v) \in {"-", "+"} THEN Tail(x.v) ELSE x.v
         IN IF rest # <<>> /\ LeadingDigits(rest) = rest
            THEN Algo(ParseInt(x.v).v) ELSE Nada

\* the middleware chain of line 343, then const client = await pool.connect()
IniciarReemplazo(c, Pedidos) ==
    /\ pc[c] = "idle"
    /\ \E r \in Pedidos :
        LET paso == AuthGate(r.cred, PermisoDe("put_productos_compra"))
        IN /\ req' = [req EXCEPT ![c] = r]
           /\ IF paso = 200
              THEN /\ pc' = [pc EXCEPT ![c] = "r_existe"]
                   /\ res' = [res EXCEPT ![c] = SinRespuesta]
              ELSE /\ pc' = [pc EXCEPT ![c] = "done"]
                   /\ res' = [res EXCEPT ![c] = Respuesta(paso, "no_autorizado")]
    /\ loc' = [loc EXCEPT ![c] = SinLocales]
    /\ tx' = [tx EXCEPT ![c] = SinTx]
    /\ antes' = [antes EXCEPT ![c] = Instantanea]
    /\ falloEn' = [falloEn EXCEPT ![c] = NingunFallo]
    /\ UNCHANGED <<db, seqCompras, seqDetalle, stockInicial, sesion, bitacora>>

\* SELECT id FROM compras WHERE id = $1, and the checks of lines 352-365
ExisteCompra(c) ==
    /\ pc[c] = "r_existe"
    /\ IF req[c].id \notin DOMAIN compras
       THEN /\ res' = [res EXCEPT ![c] = Respuesta(404, "compra_no_encontrada")]
            /\ pc' = [pc EXCEPT ![c] = "done"]
            /\ loc' = [loc EXCEPT ![c] = AlTerminar(loc[c])]
       ELSE IF req[c].productos = Nada \/ Len(req[c].productos[1]) = 0
       THEN /\ res' = [res EXCEPT ![c] = Respuesta(400, "sin_productos")]
            /\ pc' = [pc EXCEPT ![c] = "done"]
            /\ loc' = [loc EXCEPT ![c] = AlTerminar(loc[c])]
       ELSE /\ res' = res
            /\ pc' = [pc EXCEPT ![c] = "r_begin"]
            /\ loc' = loc
    /\ UNCHANGED <<db, seqCompras, seqDetalle, req, tx, antes, falloEn, stockInicial, sesion, bitacora>>

\* await client.query('BEGIN')
BeginReemplazo(c) ==
    /\ pc[c] = "r_begin"
    /\ tx' = [tx EXCEPT ![c].activa = TRUE]
    /\ pc' = [pc EXCEPT ![c] = "r_delete"]
    /\ UNCHANGED <<db, seqCompras, seqDetalle, req, loc, res, antes, falloEn, stockInicial, sesion, bitacora>>

\* The DELETE removes no row.
BorrarDetallesNinguno(c) ==
    /\ pc[c] = "r_delete"
    /\ loc' = [loc EXCEPT ![c].i = 1, ![c].nuevoTotal = 0]
    /\ pc' = [pc EXCEPT ![c] = "r_selprod"]
    /\ UNCHANGED <<db, seqCompras, seqDetalle, req, tx, res, antes, falloEn,
                   stockInicial, sesion, bitacora>>

\* the rows of detalle_compra that a transaction other than that of slot c
\* has deleted and not yet committed: it holds their locks
BorradosPorOtros(c) ==
    UNION {tx[o].borrados : o \in {x \in DOMAIN pc : x # c /\ pc[x] # "r_delete_espera"}}

\* DELETE FROM detalle_compra WHERE compra_id = $1; let nuevoTotal = 0
\* The statement finds the committed rows of the order.  When another
\* transaction holds the lock of one of them it waits, keeping the rows it
\* found.
BorrarDetalles(c) ==
    /\ pc[c] = "r_delete"
    /\ LET hallados == {d.id : d \in DetallesDe(detalle_compra, req[c].id)}
       IN /\ tx' = [tx EXCEPT ![c].borrados = hallados]
          /\ IF hallados \cap BorradosPorOtros(c) = {}
             THEN /\ loc' = [loc EXCEPT ![c].i = 1, ![c].nuevoTotal = 0]
                  /\ pc' = [pc EXCEPT ![c] = "r_selprod"]
             ELSE /\ loc' = loc
                  /\ pc' = [pc EXCEPT ![c] = "r_delete_espera"]
    /\ UNCHANGED <<db, seqCompras, seqDetalle, req, res, antes, falloEn, stockInicial, sesion, bitacora>>

\* The DELETE that waited goes on when the locks are free: of the rows it
\* found it deletes those that are still there, and it does not see the rows
\* committed after it started (READ COMMITTED).
ReanudarBorrado(c) ==
    /\ pc[c] = "r_delete_espera"
    /\ tx[c].borrados \cap BorradosPorOtros(c) = {}
    /\ tx' = [tx EXCEPT ![c].borrados = {i \in @ : \E d \in detalle_compra : d.id = i}]
    /\ loc' = [loc EXCEPT ![c].i = 1, ![c].nuevoTotal = 0]
    /\ pc' = [pc EXCEPT ![c] = "r_selprod"]
    /\ UNCHANGED <<db, seqCompras, seqDetalle, req, res, antes, falloEn, stockInicial, sesion, bitacora>>

\* The SELECT also reads the stock, and a quantity the stock does not cover
\* is rejected as in the creation of an order.
ExisteProductoConStock(c) ==
    /\ pc[c] = "r_selprod"
    /\ LET prod == req[c].productos[1][loc[c].i]
       IN IF prod.producto_id \notin DOMAIN productos
          THEN /\ pc' = [pc EXCEPT ![c] = "rollback"]
               /\ loc' = [loc EXCEPT ![c].pendiente =
                              Respuesta(500, "producto_no_encontrado")]
          ELSE IF productos[prod.producto_id].stock < prod.cantidad
          THEN /\ pc' = [pc EXCEPT ![c] = "rollback"]
               /\ loc' = [loc EXCEPT ![c].pendiente =
                              Respuesta(400, "stock_insuficiente")]
          ELSE /\ pc' = [pc EXCEPT ![c] = "r_insert"]
               /\ loc' = loc
    /\ UNCHANGED <<db, seqCompras, seqDetalle, req, tx, res, antes, falloEn, stockInicial, sesion, bitacora>>

\* SELECT id FROM productos WHERE id = $1; a missing product throws (line 379)
ExisteProducto(c) ==
    /\ pc[c] = "r_selprod"
    /\ IF req[c].productos[1][loc[c].i].producto_id \in DOMAIN productos
       THEN /\ pc' = [pc EXCEPT ![c] = "r_insert"]
            /\ loc' = loc
       ELSE /\ pc' = [pc EXCEPT ![c] = "rollback"]
            /\ loc' = [loc EXCEPT ![c].pendiente =
                           Respuesta(500, "producto_no_encontrado")]
    /\ UNCHANGED <<db, seqCompras, seqDetalle, req, tx, res, antes, falloEn, stockInicial, sesion, bitacora>>

\* INSERT INTO detalle_compra (lines 382-386); nuevoTotal += parseFloat(prod.subtotal)
InsertarReemplazo(c) ==
    /\ pc[c] = "r_insert"
    /\ seqDetalle' = seqDetalle + 1
    /\ LET prods == req[c].productos[1]
           prod == prods[loc[c].i]
           subtotal == ANumerico(prod.subtotal)
           nuevoTotal == loc[c].nuevoTotal + ParseFloat(prod.subtotal).v
       IN IF subtotal = Nada
          THEN \* the INSERT is rejected: the catch block runs
               /\ tx' = tx
               /\ pc' = [pc EXCEPT ![c] = "rollback"]
               /\ loc' = [loc EXCEPT ![c].pendiente = Respuesta(500, "error_productos")]
          ELSE /\ tx' = [tx EXCEPT ![c].detalle = @ \cup
                          {[id |-> seqDetalle + 1, compra_id |-> req[c].id,
                            producto_id |-> prod.producto_id, cantidad |-> prod.cantidad,
                            precio_unitario |-> prod.precio_unitario,
                            subtotal |-> subtotal[1]]}]
               /\ IF loc[c].i < Len(prods)
                  THEN /\ pc' = [pc EXCEPT ![c] = "r_selprod"]
                       /\ loc' = [loc EXCEPT ![c].i = @ + 1, ![c].nuevoTotal = nuevoTotal]
                  ELSE /\ pc' = [pc EXCEPT ![c] = "r_total"]
                       /\ loc' = [loc EXCEPT ![c].nuevoTotal = nuevoTotal]
    /\ UNCHANGED <<db, seqCompras, req, res, antes, falloEn, stockInicial, sesion, bitacora>>

\* UPDATE compras SET total = $1 WHERE id = $2; it waits while another
\* transaction holds the row
ActualizarTotal(c) ==
    /\ pc[c] = "r_total"
    /\ \A o \in DOMAIN pc \ {c} : req[c].id \notin DOMAIN tx[o].totales
    /\ tx' = [tx EXCEPT ![c].totales = (req[c].id :> loc[c].nuevoTotal) @@ @]
    /\ pc' = [pc EXCEPT ![c] = "r_commit"]
    /\ UNCHANGED <<db, seqCompras, seqDetalle, req, loc, res, antes, falloEn, stockInicial, sesion, bitacora>>

\* await client.query('COMMIT'); res.json({success: true, ...}); finally client.release()
CommitReemplazo(c) ==
    /\ pc[c] = "r_commit"
    /\ productos' = Confirmar(tx[c]).productos
    /\ compras' = Confirmar(tx[c]).compras
    /\ detalle_compra' = Confirmar(tx[c]).detalle_compra
    /\ tx' = [tx EXCEPT ![c] = SinTx]
    /\ res' = [res EXCEPT ![c] = Respuesta(200, "ok")]
    /\ pc' = [pc EXCEPT ![c] = "done"]
    /\ loc' = [loc EXCEPT ![c] = AlTerminar(loc[c])]
    /\ UNCHANGED <<seqCompras, seqDetalle, req, antes, falloEn, stockInicial, sesion, bitacora>>

SentenciasReemplazo == {"r_existe", "r_begin", "r_delete", "r_selprod", "r_insert",
                        "r_total", "r_commit"}

\* A statement of the try block is rejected by the database: the catch block
\* of lines 405-411 runs.
FallaSentenciaReemplazo(c) ==
    /\ pc[c] \in SentenciasReemplazo
    /\ falloEn' = [falloEn EXCEPT ![c] = [en |-> pc[c], i |-> loc[c].i]]
    /\ loc' = [loc EXCEPT ![c].pendiente = Respuesta(500, "error_productos")]
    /\ pc' = [pc EXCEPT ![c] = "rollback"]
    /\ UNCHANGED <<db, seqCompras, seqDetalle, req, tx, res, antes, stockInicial, sesion, bitacora>>

----------------------------------------------------------------------------
(* PUT /api/productos/:id *)

\* COALESCE($n, column)
Coalesce(x, actual) == IF x = Nada THEN actual ELSE x[1]

\* The UPDATE of lines 182-195
ProductoActualizado(fila, body) ==
    [precio |-> Coalesce(body.precio, fila.precio),
     stock |-> Coalesce(body.stock, fila.stock),
     activo |-> Coalesce(body.activo, fila.activo)]

CuerpoProducto(precio, stock, activo) ==
    [precio |-> precio, stock |-> stock, activo |-> activo]

\* The handler that also rewrites the unit price and subtotal of the line
\* items of the product.
PutProductoRecalcula(cred, id, body) ==
    LET paso == AuthGate(cred, PermisoDe("put_producto"))
        status == IF paso # 200 THEN paso
                  ELSE IF id \notin DOMAIN productos THEN 404 ELSE 200
        nuevo == ProductoActualizado(productos[id], body)
    IN /\ productos' = IF status = 200 THEN [productos EXCEPT ![id] = nuevo]
                       ELSE productos
       /\ detalle_compra' =
             IF status = 200
             THEN {IF d.producto_id = id
                   THEN [d EXCEPT !.precio_unitario = nuevo.precio,
                                  !.subtotal = nuevo.precio * d.cantidad]
                   ELSE d : d \in detalle_compra}
             ELSE detalle_compra
       /\ Registrar(Peticion("put_producto", cred, id, body, status))
       /\ UNCHANGED <<compras, seqCompras, seqDetalle, pc, req, loc,
                      tx, res, antes, falloEn, stockInicial, sesion>>

\* The whole handler: the middleware chain, the existence check of lines
\* 160-170 and the UPDATE, committed at once (pool.query); the UPDATE waits
\* while a transaction holds the row.  No row of productos is ever deleted,
\* so the existence check and the UPDATE see the same row.
PutProducto(cred, id, body) ==
    LET paso == AuthGate(cred, PermisoDe("put_producto"))
        status == IF paso # 200 THEN paso
                  ELSE IF id \notin DOMAIN productos THEN 404 ELSE 200
    IN /\ status = 200 => \A c \in DOMAIN pc : id \notin DOMAIN tx[c].prod
       /\ productos' = IF status = 200
                       THEN [productos EXCEPT ![id] = ProductoActualizado(@, body)]
                       ELSE productos
       /\ Registrar(Peticion("put_producto", cred, id, body, status))
       /\ UNCHANGED <<compras, detalle_compra, seqCompras, seqDetalle, pc, req, loc,
                      tx, res, antes, falloEn, stockInicial, sesion>>

\* an administrator with every permission edits a product of the catalog
ActualizarProducto(Precs, Stocks, Activos) ==
    \E p \in DOMAIN productos, precio \in Precs, stock \in Stocks, activo \in Activos :
        /\ Len(bitacora) < MaxEdiciones
        /\ PutProducto(CredAdmin, p, CuerpoProducto(precio, stock, activo))

----------------------------------------------------------------------------
(* POST /api/productos, DELETE /api/productos/:id, GET /api/productos *)

CuerpoNuevoProducto(nombre, categoria, precio, stock, activo) ==
    [nombre |-> nombre, categoria |-> categoria, precio |-> precio, stock |-> stock,
     activo |-> activo]

\* the id the INSERT assigns: ids are never reused
NuevoIdProducto ==
    LET ids == DOMAIN productos
    IN IF ids = {} THEN 1 ELSE (CHOOSE m \in ids : \A x \in ids : x <= m) + 1

\* the row of lines 126-131: stock || 0, activo !== undefined ? activo : true
FilaProducto(body) ==
    [precio |-> body.precio[1],
     stock |-> IF body.stock = Nada \/ body.stock[1] = 0 THEN 0 ELSE body.stock[1],
     activo |-> IF body.activo = Nada THEN TRUE ELSE body.activo[1]]

PostProducto(cred, body) ==
    LET paso == AuthGate(cred, PermisoDe("post_producto"))
        status == IF paso # 200 THEN paso
                  ELSE IF ~TruthyStr(body.nombre) \/ ~TruthyStr(body.categoria)
                          \/ body.precio = Nada \/ body.precio[1] = 0
                  THEN 400 ELSE 201
    IN /\ productos' = IF status = 201
                       THEN (NuevoIdProducto :> FilaProducto(body)) @@ productos
                       ELSE productos
       /\ Registrar(Peticion("post_producto", cred, 0, body, status))
       /\ UNCHANGED <<compras, detalle_compra, seqCompras, seqDetalle, pc, req, loc,
                      tx, res, antes, falloEn, stockInicial, sesion>>

\* The row is removed from the table.
ProductoBorrado(tabla, id) == [p \in DOMAIN tabla \ {id} |-> tabla[p]]

\* UPDATE productos SET activo = false WHERE id = $1
ProductoEliminado(tabla, id) == [tabla EXCEPT ![id].activo = FALSE]

DeleteProducto(cred, id) ==
    LET paso == AuthGate(cred, PermisoDe("delete_producto"))
        status == IF paso # 200 THEN paso
                  ELSE IF id \notin DOMAIN productos THEN 404 ELSE 200
    IN /\ status = 200 => \A c \in DOMAIN pc : id \notin DOMAIN tx[c].prod
       /\ productos' = IF status = 200 THEN ProductoEliminado(productos, id)
                       ELSE productos
       /\ Registrar(Peticion("delete_producto", cred, id, SinCuerpo, status))
       /\ UNCHANGED <<compras, detalle_compra, seqCompras, seqDetalle, pc, req, loc,
                      tx, res, antes, falloEn, stockInicial, sesion>>

\* GET /api/productos: SELECT * FROM productos WHERE activo = true
GetProductos(cred) ==
    LET paso == AuthGate(cred, PermisoDe("get_productos"))
    IN /\ Registrar(IF paso # 200
                    THEN Peticion("get_productos", cred, 0, SinCuerpo, paso)
                    ELSE ConDatos(Peticion("get_productos", cred, 0, SinCuerpo, 200),
                                  {p \in DOMAIN productos : productos[p].activo}))
       /\ UNCHANGED <<db, seqCompras, seqDetalle, pc, req, loc, tx, res, antes,
                      falloEn, stockInicial, sesion>>

----------------------------------------------------------------------------
(* PATCH /api/compras/:id/estado *)

\* typeof x === 'boolean'
EsBooleano(x) == x # Nada /\ x[1].t = "bool"

CuerpoEstado(abonado, listo, entregado) ==
    [abonado |-> abonado, listo |-> listo, entregado |-> entregado]

\* Every flag is written, one that was not supplied as false.
EstadoReemplazado(fila, body) ==
    [fila EXCEPT !.abonado = EsBooleano(body.abonado) /\ body.abonado[1].v,
                 !.listo = EsBooleano(body.listo) /\ body.listo[1].v,
                 !.entregado = EsBooleano(body.entregado) /\ body.entregado[1].v]

\* A flag that is supplied is combined with the stored one.
EstadoAcumulado(fila, body) ==
    [fila EXCEPT !.abonado = IF EsBooleano(body.abonado)
                             THEN (@ # body.abonado[1].v) ELSE @,
                 !.listo = IF EsBooleano(body.listo) THEN body.listo[1].v ELSE @,
                 !.entregado = IF EsBooleano(body.entregado)
                               THEN body.entregado[1].v ELSE @]

\* UPDATE compras SET <the flags supplied as booleans> WHERE id = $n
EstadoActualizado(fila, body) ==
    [fila EXCEPT !.abonado = IF EsBooleano(body.abonado) THEN body.abonado[1].v ELSE @,
                 !.listo = IF EsBooleano(body.listo) THEN body.listo[1].v ELSE @,
                 !.entregado = IF EsBooleano(body.entregado)
                               THEN body.entregado[1].v ELSE @]

\* a transaction has written the order or line items of it
CompraEnUso(id) ==
    \E c \in DOMAIN pc :
        \/ id \in DOMAIN tx[c].totales
        \/ \E d \in tx[c].detalle : d.compra_id = id
        \/ \E d \in detalle_compra : d.compra_id = id /\ d.id \in tx[c].borrados

PatchEstado(cred, id, body) ==
    LET paso == AuthGate(cred, PermisoDe("patch_estado"))
        status == IF paso # 200 THEN paso
                  ELSE IF ~(EsBooleano(body.abonado) \/ EsBooleano(body.listo)
                            \/ EsBooleano(body.entregado)) THEN 400
                  ELSE IF id \notin DOMAIN compras THEN 404 ELSE 200
    IN /\ status = 200 => id \notin UNION {DOMAIN tx[c].totales : c \in DOMAIN pc}
       /\ compras' = IF status = 200
                     THEN [compras EXCEPT ![id] = EstadoActualizado(@, body)]
                     ELSE compras
       /\ Registrar(IF status = 200
                    THEN ConDatos(Peticion("patch_estado", cred, id, body, status),
                                  EstadoActualizado(compras[id], body))
                    ELSE Peticion("patch_estado", cred, id, body, status))
       /\ UNCHANGED <<productos, detalle_compra, seqCompras, seqDetalle, pc, req, loc,
                      tx, res, antes, falloEn, stockInicial, sesion>>

----------------------------------------------------------------------------
(* PUT /api/compras/:id *)

MesaMaxEdicion == 32

CuerpoCompra(nombre, telefono, mesa) ==
    [comprador_nombre |-> nombre, comprador_telefono |-> telefono,
     comprador_mesa |-> mesa]

\* comprador_mesa && (comprador_mesa < 1 || comprador_mesa > 32)
MesaEdicionFueraDeRango(mesa) ==
    mesa # Nada /\ mesa[1] # 0 /\ (mesa[1] < MesaMin \/ mesa[1] > MesaMaxEdicion)

\* A field that is not supplied is set to null.
CompradorReemplazado(fila, body) ==
    [fila EXCEPT !.comprador_nombre = Coalesce(body.comprador_nombre, @),
                 !.comprador_telefono = body.comprador_telefono,
                 !.comprador_mesa = body.comprador_mesa]

\* SET comprador_nombre = COALESCE($1, comprador_nombre), ... (lines 576-579)
CompradorActualizado(fila, body) ==
    [fila EXCEPT !.comprador_nombre = Coalesce(body.comprador_nombre, @),
                 !.comprador_telefono =
                     IF body.comprador_telefono = Nada THEN @ ELSE body.comprador_telefono,
                 !.comprador_mesa =
                     IF body.comprador_mesa = Nada THEN @ ELSE body.comprador_mesa]

PutCompra(cred, id, body) ==
    LET paso == AuthGate(cred, PermisoDe("put_compra"))
        status == IF paso # 200 THEN paso
                  ELSE IF MesaEdicionFueraDeRango(body.comprador_mesa) THEN 400
                  ELSE IF id \notin DOMAIN compras THEN 404 ELSE 200
    IN /\ status = 200 => id \notin UNION {DOMAIN tx[c].totales : c \in DOMAIN pc}
       /\ compras' = IF status = 200
                     THEN [compras EXCEPT ![id] = CompradorActualizado(@, body)]
                     ELSE compras
       /\ Registrar(IF status = 200
                    THEN ConDatos(Peticion("put_compra", cred, id, body, status),
                                  CompradorActualizado(compras[id], body))
                    ELSE Peticion("put_compra", cred, id, body, status))
       /\ UNCHANGED <<productos, detalle_compra, seqCompras, seqDetalle, pc, req, loc,
                      tx, res, antes, falloEn, stockInicial, sesion>>

----------------------------------------------------------------------------
(* DELETE /api/compras/:id, GET /api/compras, GET /api/compras/:id *)

\* detalle_compra after the order id is deleted: its rows go with it
\* (ON DELETE CASCADE of detalle_compra.compra_id)
EnCascada(tabla, id) == {d \in tabla : d.compra_id # id}

RECURSIVE CantidadEnDetalles(_, _)
\* the units of product p in a set of line items
CantidadEnDetalles(filas, p) ==
    IF filas = {} THEN 0
    ELSE LET f == CHOOSE x \in filas : TRUE
         IN (IF f.producto_id = p THEN f.cantidad ELSE 0)
            + CantidadEnDetalles(filas \ {f}, p)

\* The deletion gives the units of the order back to the stock.
DeleteCompraRestaura(cred, id) ==
    LET paso == AuthGate(cred, PermisoDe("delete_compra"))
        status == IF paso # 200 THEN paso
                  ELSE IF id \notin DOMAIN compras THEN 404 ELSE 200
    IN /\ status = 200 => ~CompraEnUso(id)
       /\ compras' = IF status = 200
                     THEN [x \in DOMAIN compras \ {id} |-> compras[x]]
                     ELSE compras
       /\ detalle_compra' = IF status = 200 THEN EnCascada(detalle_compra, id)
                            ELSE detalle_compra
       /\ productos' = IF status = 200
                       THEN [p \in DOMAIN productos |->
                               [productos[p] EXCEPT !.stock =
                                   @ + CantidadEnDetalles(DetallesDe(detalle_compra, id), p)]]
                       ELSE productos
       /\ Registrar(Peticion("delete_compra", cred, id, SinCuerpo, status))
       /\ UNCHANGED <<seqCompras, seqDetalle, pc, req, loc,
                      tx, res, antes, falloEn, stockInicial, sesion>>

DeleteCompra(cred, id) ==
    LET paso == AuthGate(cred, PermisoDe("delete_compra"))
        status == IF paso # 200 THEN paso
                  ELSE IF id \notin DOMAIN compras THEN 404 ELSE 200
    IN /\ status = 200 => ~CompraEnUso(id)
       /\ compras' = IF status = 200
                     THEN [x \in DOMAIN compras \ {id} |-> compras[x]]
                     ELSE compras
       /\ detalle_compra' = IF status = 200 THEN EnCascada(detalle_compra, id)
                            ELSE detalle_compra
       /\ Registrar(Peticion("delete_compra", cred, id, SinCuerpo, status))
       /\ UNCHANGED <<productos, seqCompras, seqDetalle, pc, req, loc,
                      tx, res, antes, falloEn, stockInicial, sesion>>

\* SELECT * FROM compras, and for each its line items joined with productos
GetCompras(cred) ==
    LET paso == AuthGate(cred, PermisoDe("get_compras"))
    IN /\ Registrar(IF paso # 200
                    THEN Peticion("get_compras", cred, 0, SinCuerpo, paso)
                    ELSE ConDatos(Peticion("get_compras", cred, 0, SinCuerpo, 200),
                                  [compras |-> compras, detalles |-> detalle_compra]))
       /\ UNCHANGED <<db, seqCompras, seqDetalle, pc, req, loc, tx, res, antes,
                      falloEn, stockInicial, sesion>>

GetCompra(cred, id) ==
    LET paso == AuthGate(cred, PermisoDe("get_compra"))
        status == IF paso # 200 THEN paso
                  ELSE IF id \notin DOMAIN compras THEN 404 ELSE 200
    IN /\ Registrar(IF status # 200
                    THEN Peticion("get_compra", cred, id, SinCuerpo, status)
                    ELSE ConDatos(Peticion("get_compra", cred, id, SinCuerpo, 200),
                                  [compra |-> compras[id],
                                   detalle |-> DetallesDe(detalle_compra, id)]))
       /\ UNCHANGED <<db, seqCompras, seqDetalle, pc, req, loc, tx, res, antes,
                      falloEn, stockInicial, sesion>>

----------------------------------------------------------------------------
(* The requests the clients send *)

Nombres == {Nada, Algo("Ana")}
\* comprador_mesa of a multipart body: absent or a string
Mesas == {Nada, Algo(<<>>), Algo(<<"0">>), Algo(<<"-", "1">>), Algo(<<"1">>),
          Algo(<<"5", "0">>), Algo(<<"5", "1">>)}
Metodos == {Nada, Algo("efectivo"), Algo("transferencia"), Algo("tarjeta")}
\* req.file: absent, or an image of the largest size multer lets through
Archivos == {Nada, Algo([size |-> TamMaxArchivo, mimetypeLen |-> Len("image/jpeg")])}

\* every list of 1..MaxItems line items over the given products and quantities
Listas(Ids, Qs) ==
    UNION {[1..n -> {Item(p, q) : p \in Ids, q \in Qs}] : n \in 1..MaxItems}

\* one order that the stock covers, one that no stock covers, one of an unknown product
ListasBase == {<<Item(1, 1)>>, <<Item(1, MaxStock + 1)>>, <<Item(IdInexistente, 1)>>}

\* every combination of the fields, with one of the base lists
PedidosCampos ==
    {PedidoCrear(n, Nada, m, mp, f, ProductosArray(l)) :
        n \in Nombres, m \in Mesas, mp \in Metodos, f \in Archivos, l \in ListasBase}

\* every value of productos, with fields that pass the validation
PedidosProductos ==
    {PedidoCrear(Algo("Ana"), Nada, Nada, Algo("efectivo"), Nada, ps) :
        ps \in {ProductosInvalido, ProductosNoArray, ProductosArray(<<>>)}
               \cup {ProductosArray(l) : l \in Listas(IdsPedidos, Cantidades)}}

PedidosTodos == PedidosCampos \cup PedidosProductos

----------------------------------------------------------------------------
(* Initial states *)

\* the catalog: any stock in 0..MaxStock, prices that differ, the second
\* product possibly deactivated
Catalogos(Activos) ==
    {[p \in IdsProducto |-> [precio |-> p, stock |-> st[p], activo |-> (p = 1 \/ a)]] :
        st \in [IdsProducto -> 0..MaxStock], a \in Activos}

\* an order the database may already hold: one unit of product 1 at price 1
CompraPrevia ==
    [comprador_nombre |-> "Eva", comprador_telefono |-> Nada, comprador_mesa |-> Algo(7),
     metodo_pago |-> "efectivo", comprobante_archivo |-> Nada, total |-> 1,
     abonado |-> FALSE, listo |-> FALSE, entregado |-> FALSE]
DetallePrevio ==
    [id |-> 1, compra_id |-> 1, producto_id |-> 1, cantidad |-> 1,
     precio_unitario |-> 1, subtotal |-> 1]

InitCon(Slots, Historias, Activos) ==
    /\ productos \in Catalogos(Activos)
    /\ \E h \in Historias :
        /\ compras = IF h THEN 1 :> CompraPrevia ELSE <<>>
        /\ detalle_compra = IF h THEN {DetallePrevio} ELSE {}
        /\ seqCompras = IF h THEN 1 ELSE 0
        /\ seqDetalle = IF h THEN 1 ELSE 0
    /\ pc = [c \in Slots |-> "idle"]
    /\ req = [c \in Slots |-> SinPedido]
    /\ loc = [c \in Slots |-> SinLocales]
    /\ tx = [c \in Slots |-> SinTx]
    /\ res = [c \in Slots |-> SinRespuesta]
    /\ antes = [c \in Slots |-> Instantanea]
    /\ falloEn = [c \in Slots |-> NingunFallo]
    /\ stockInicial = [p \in IdsProducto |-> productos[p].stock]
    /\ bitacora = <<>>
    /\ SinSesion

----------------------------------------------------------------------------
(* SpecCompra: one order-creation request, from any initial catalog, with  *)
(* nothing else touching the database while it runs.                       *)

SlotsCompra == {1}

InitCompra == InitCon(SlotsCompra, BOOLEAN, BOOLEAN)

NextCompra ==
    \/ \E c \in SlotsCompra : IniciarCompra(c, PedidosTodos)
    \/ \E c \in SlotsCompra : Begin(c)
    \/ \E c \in SlotsCompra : ValidarStock(c)
    \/ \E c \in SlotsCompra : CalcularTotal(c)
    \/ \E c \in SlotsCompra : InsertarCompra(c)
    \/ \E c \in SlotsCompra : LeerPrecio(c)
    \/ \E c \in SlotsCompra : InsertarDetalle(c)
    \/ \E c \in SlotsCompra : DescontarStock(c)
    \/ \E c \in SlotsCompra : CommitCompra(c)
    \/ \E c \in SlotsCompra : Rollback(c)
    \/ \E c \in SlotsCompra : FallaSentencia(c)

SpecCompra == InitCompra /\ [][NextCompra]_vars

----------------------------------------------------------------------------
(* Vocabulary of the claims about one order-creation request.  antes[c] is  *)
(* the database when request c started; in SpecCompra nothing else writes   *)
(* to it while the request runs.                                            *)

Terminado(c) == pc[c] = "done" /\ req[c].tipo = "crear"

SinCambios(c) ==
    /\ productos = antes[c].productos
    /\ compras = antes[c].compras
    /\ detalle_compra = antes[c].detalle_compra

SinFallo(c) == falloEn[c] = NingunFallo

PasaValidacion(c) == ValidarCampos(req[c]) = "ok"

ItemsDe(c) == req[c].productos.items

\* the item names a product that existed and was active when the request started
ItemDisponible(c, item) ==
    /\ item.producto_id \in DOMAIN antes[c].productos
    /\ antes[c].productos[item.producto_id].activo

\* the item asks for more than the stock its product had when the request started
ItemExcedeStock(c, item) ==
    /\ item.producto_id \in DOMAIN antes[c].productos
    /\ item.cantidad > antes[c].productos[item.producto_id].stock

RECURSIVE CantidadPedida(_, _)
\* the sum of the quantities the items ask of product p
CantidadPedida(items, p) ==
    IF items = <<>> THEN 0
    ELSE (IF Head(items).producto_id = p THEN Head(items).cantidad ELSE 0)
         + CantidadPedida(Tail(items), p)

\* the first item the validation loop rejects
PrimerRechazado(c) ==
    LET malos == {i \in 1..Len(ItemsDe(c)) :
                    ~ItemDisponible(c, ItemsDe(c)[i]) \/ ItemExcedeStock(c, ItemsDe(c)[i])}
    IN ItemsDe(c)[CHOOSE i \in malos : \A j \in malos : i <= j]

\* the response of the validation loop for the first item it rejects
RespuestaRechazo(c) ==
    IF ItemDisponible(c, PrimerRechazado(c))
    THEN Respuesta(400, "stock_insuficiente")
    ELSE Respuesta(404, "producto_no_existe")

----------------------------------------------------------------------------
(* C2 *)

----------------------------------------------------------------------------
(* C3 *)

\* C3 as stated: a request that passes the field validation and in which some
\* line item asks for more than its product's stock is answered 400
\* insufficient-stock and changes nothing.
C3_Original ==
    \A c \in DOMAIN pc :
        (/\ Terminado(c) /\ PasaValidacion(c) /\ SinFallo(c)
         /\ \E i \in 1..Len(ItemsDe(c)) : ItemExcedeStock(c, ItemsDe(c)[i]))
        => /\ res[c] = Respuesta(400, "stock_insuficiente")
           /\ SinCambios(c)

\* C3 amended: such a request changes nothing and is answered with the error
\* of the first line item the validation rejects: 400 insufficient-stock when
\* that item names an active product, 404 product-not-found when it names an
\* unknown or inactive one.
C3_ExcesoDeStockNoCambiaNada ==
    \A c \in DOMAIN pc :
        (/\ Terminado(c) /\ PasaValidacion(c) /\ SinFallo(c)
         /\ \E i \in 1..Len(ItemsDe(c)) : ItemExcedeStock(c, ItemsDe(c)[i]))
        => /\ res[c] = RespuestaRechazo(c)
           /\ SinCambios(c)

\* the second item of a request was rejected for its stock after the first passed
C3_Witness ==
    \E c \in DOMAIN pc :
        /\ Terminado(c) /\ PasaValidacion(c) /\ SinFallo(c)
        /\ Len(ItemsDe(c)) = 2
        /\ ItemDisponible(c, ItemsDe(c)[1]) /\ ~ItemExcedeStock(c, ItemsDe(c)[1])
        /\ ItemDisponible(c, ItemsDe(c)[2]) /\ ItemExcedeStock(c, ItemsDe(c)[2])
        /\ res[c] = Respuesta(400, "stock_insuficiente")

----------------------------------------------------------------------------
(* C6 *)

----------------------------------------------------------------------------
(* C8 *)

\* C8 as stated: a request with metodo_pago 'transferencia' and no file is
\* answered 400 with the missing-receipt message, whatever its other fields,
\* and changes nothing.
C8_Original ==
    \A c \in DOMAIN pc :
        (/\ Terminado(c)
         /\ req[c].metodo_pago = Algo("transferencia") /\ req[c].file = Nada)
        => /\ res[c] = Respuesta(400, "comprobante")
           /\ SinCambios(c)

\* C8 amended: such a request is answered 400 and changes nothing; the message
\* is the missing-receipt one when the buyer name is present and the table
\* number passes the range check, and otherwise that of the earlier check
\* that failed (missing field, then table range).
C8_TransferenciaSinComprobante ==
    \A c \in DOMAIN pc :
        (/\ Terminado(c)
         /\ req[c].metodo_pago = Algo("transferencia") /\ req[c].file = Nada)
        => /\ res[c].status = 400
           /\ SinCambios(c)
           /\ res[c].mensaje =
                IF ~TruthyStr(req[c].comprador_nombre) THEN "faltan_datos"
                ELSE IF MesaFueraDeRango(mesaNormalizada(req[c].comprador_mesa))
                     THEN "mesa_rango"
                ELSE "comprobante"

\* a transfer without a file whose other fields and items are all valid was rejected
C8_Witness ==
    \E c \in DOMAIN pc :
        /\ Terminado(c)
        /\ req[c].metodo_pago = Algo("transferencia") /\ req[c].file = Nada
        /\ TruthyStr(req[c].comprador_nombre)
        /\ req[c].comprador_mesa = Algo(<<"5", "0">>)
        /\ ItemsDe(c) = <<Item(1, 1)>>
        /\ antes[c].productos[1].stock >= 1
        /\ res[c] = Respuesta(400, "comprobante")

----------------------------------------------------------------------------
(* C9 *)

\* the request supplies a table number
MesaSuministrada(c) ==
    req[c].comprador_mesa # Nada /\ req[c].comprador_mesa[1] # <<>>

\* C9: a request whose name, payment method, receipt and line items are valid
\* and covered by the stock, and whose table number is outside 1..50, is
\* answered 400 with the table-range message and changes nothing.
C9_MesaFueraDeRangoRechazada ==
    \A c \in DOMAIN pc :
        (/\ Terminado(c) /\ SinFallo(c)
         /\ TruthyStr(req[c].comprador_nombre)
         /\ TruthyStr(req[c].metodo_pago) /\ req[c].metodo_pago[1] \in MetodosDePago
         /\ ~FaltaComprobante(req[c].metodo_pago, req[c].file)
         /\ req[c].productos.forma = "array"
         /\ \A i \in 1..Len(ItemsDe(c)) :
               ItemDisponible(c, ItemsDe(c)[i]) /\ ~ItemExcedeStock(c, ItemsDe(c)[i])
         /\ MesaSuministrada(c)
         /\ LET m == ParseInt(req[c].comprador_mesa[1])
            IN m.t = "num" /\ (m.v < MesaMin \/ m.v > MesaMax))
        => /\ res[c] = Respuesta(400, "mesa_rango")
           /\ SinCambios(c)

----------------------------------------------------------------------------
(* C10 *)

\* C10 as stated: a request that passes the field validation and has a line
\* item naming an unknown or inactive product is answered 404 and changes
\* nothing.
C10_Original ==
    \A c \in DOMAIN pc :
        (/\ Terminado(c) /\ PasaValidacion(c) /\ SinFallo(c)
         /\ \E i \in 1..Len(ItemsDe(c)) : ~ItemDisponible(c, ItemsDe(c)[i]))
        => /\ res[c] = Respuesta(404, "producto_no_existe")
           /\ SinCambios(c)

\* C10 amended: such a request changes nothing and is never answered 201; it
\* is answered 404 product-not-found unless a line item before the first
\* unknown or inactive one asks for more than its product's stock, and then
\* 400 insufficient-stock.
C10_ProductoNoDisponibleNoCambiaNada ==
    \A c \in DOMAIN pc :
        (/\ Terminado(c) /\ PasaValidacion(c) /\ SinFallo(c)
         /\ \E i \in 1..Len(ItemsDe(c)) : ~ItemDisponible(c, ItemsDe(c)[i]))
        => /\ SinCambios(c)
           /\ res[c] =
                IF \E i \in 1..Len(ItemsDe(c)) :
                      /\ ItemDisponible(c, ItemsDe(c)[i])
                      /\ ItemExcedeStock(c, ItemsDe(c)[i])
                      /\ \A j \in 1..i : ItemDisponible(c, ItemsDe(c)[j])
                THEN Respuesta(400, "stock_insuficiente")
                ELSE Respuesta(404, "producto_no_existe")

\* the second item of a request named the deactivated product 2 after a first
\* item that passed, and the request was answered 404
C10_Witness ==
    \E c \in DOMAIN pc :
        /\ Terminado(c) /\ PasaValidacion(c) /\ SinFallo(c)
        /\ Len(ItemsDe(c)) = 2
        /\ ItemDisponible(c, ItemsDe(c)[1]) /\ ~ItemExcedeStock(c, ItemsDe(c)[1])
        /\ ItemsDe(c)[2].producto_id = 2
        /\ ~antes[c].productos[2].activo
        /\ res[c] = Respuesta(404, "producto_no_existe")

----------------------------------------------------------------------------
(* SpecCarrera: two clients send one order-creation request each, at the    *)
(* same time: their statements interleave in every order.  The requests are *)
(* well formed: valid fields, no product named twice, quantities of 1 or of *)
(* MaxStock.  Nothing else writes to the database, which starts with every  *)
(* product active and without orders.                                       *)

ListasBienFormadas ==
    {l \in Listas(IdsProducto, {1, MaxStock}) :
        \A i, j \in 1..Len(l) : i # j => l[i].producto_id # l[j].producto_id}

PedidosCarrera ==
    {PedidoCrear(Algo("Ana"), Nada, Nada, Algo("efectivo"), Nada, ProductosArray(l)) :
        l \in ListasBienFormadas}

SlotsCarrera == {1, 2}

InitCarrera == InitCon(SlotsCarrera, {FALSE}, {TRUE})

NextCarrera ==
    \/ \E c \in SlotsCarrera : IniciarCompra(c, PedidosCarrera)
    \/ \E c \in SlotsCarrera : Begin(c)
    \/ \E c \in SlotsCarrera : ValidarStock(c)
    \/ \E c \in SlotsCarrera : CalcularTotal(c)
    \/ \E c \in SlotsCarrera : InsertarCompra(c)
    \/ \E c \in SlotsCarrera : LeerPrecio(c)
    \/ \E c \in SlotsCarrera : InsertarDetalle(c)
    \/ \E c \in SlotsCarrera : DescontarStock(c)
    \/ \E c \in SlotsCarrera : CommitCompra(c)
    \/ \E c \in SlotsCarrera : Rollback(c)
    \/ \E c \in SlotsCarrera : FallaSentencia(c)

SpecCarrera == InitCarrera /\ [][NextCarrera]_vars

----------------------------------------------------------------------------
(* C1 *)

\* C1: the quantities of the committed line items of a product never add up to
\* more than the stock the product had before the requests.
C1_SinSobreventa ==
    \A p \in DOMAIN productos :
        SumaCantidades(DetallesDeProducto(detalle_compra, p)) <= stockInicial[p]

----------------------------------------------------------------------------
(* C5 *)

\* the committed line items of order id
LineasConfirmadas(id) == DetallesDe(detalle_compra, id)

\* C5: in every state, what another request can read (the committed tables)
\* holds an order either whole or not at all: every committed line item
\* belongs to a committed order; the order a request has inserted is
\* committed together with one line item for each item of the request, and
\* while it is not committed none of its line items is; and the stock that
\* each product has lost is exactly the sum of the quantities of its
\* committed line items.
C5_CompraNuncaParcial ==
    /\ \A d \in detalle_compra : d.compra_id \in DOMAIN compras
    /\ \A id \in DOMAIN compras : \E c \in DOMAIN pc : loc[c].compraId = id
    /\ \A c \in DOMAIN pc :
          loc[c].compraId # 0 =>
              IF loc[c].compraId \in DOMAIN compras
              THEN /\ {Item(d.producto_id, d.cantidad) :
                          d \in LineasConfirmadas(loc[c].compraId)}
                      = {ItemsDe(c)[i] : i \in 1..Len(ItemsDe(c))}
                   /\ Cardinality(LineasConfirmadas(loc[c].compraId)) = Len(ItemsDe(c))
              ELSE LineasConfirmadas(loc[c].compraId) = {}
    /\ \A p \in DOMAIN productos :
          stockInicial[p] - productos[p].stock
              = SumaCantidades(DetallesDeProducto(detalle_compra, p))

\* one request has written its order, two line items and both decrements and
\* has not committed, while the other request is reading the catalog
C5_Witness ==
    \E c, d \in DOMAIN pc :
        /\ c # d
        /\ pc[c] = "commit"
        /\ Cardinality(tx[c].detalle) = 2
        /\ DOMAIN tx[c].prod = IdsProducto
        /\ pc[d] = "validar"
        /\ compras = <<>>

----------------------------------------------------------------------------
(* Spec: one request on the orders (a creation or a replacement of the     *)
(* line items of the order the database already holds), statement by       *)
(* statement, while the administrator edits the catalog between its        *)
(* statements.                                                             *)

PedidosTienda ==
    {PedidoCrear(Algo("Ana"), Nada, Nada, Algo("efectivo"), Nada, ProductosArray(l)) :
        l \in Listas(IdsProducto, {1})}

\* line items as the administrator's form sends them: any quantity, a
\* subtotal that is the product of price and quantity or is not
SubtotalLibre == 5
ItemsReemplazo ==
    {ItemReemplazo(p, MaxStock + 1, 1, JsNum(st)) :
        p \in {1, IdInexistente}, st \in {MaxStock + 1, SubtotalLibre}}

PedidosReemplazo ==
    {PedidoReemplazar(id, ps) :
        id \in {1, 2},
        ps \in {Nada, Algo(<<>>)} \cup
               {Algo(l) : l \in UNION {[1..n -> ItemsReemplazo] : n \in 1..MaxItems}}}

PreciosAdmin == {Nada} \cup {Algo(x) : x \in Precios}
StocksAdmin == {Nada, Algo(0)}
ActivosAdmin == {Nada, Algo(FALSE)}

SlotsTienda == {1}

Init == InitCon(SlotsTienda, BOOLEAN, {TRUE})

Next ==
    \/ \E c \in SlotsTienda : IniciarCompra(c, PedidosTienda)
    \/ \E c \in SlotsTienda : Begin(c)
    \/ \E c \in SlotsTienda : ValidarStock(c)
    \/ \E c \in SlotsTienda : CalcularTotal(c)
    \/ \E c \in SlotsTienda : InsertarCompra(c)
    \/ \E c \in SlotsTienda : LeerPrecio(c)
    \/ \E c \in SlotsTienda : InsertarDetalle(c)
    \/ \E c \in SlotsTienda : DescontarStock(c)
    \/ \E c \in SlotsTienda : CommitCompra(c)
    \/ \E c \in SlotsTienda : Rollback(c)
    \/ \E c \in SlotsTienda : FallaSentencia(c)
    \/ \E c \in SlotsTienda : IniciarReemplazo(c, PedidosReemplazo)
    \/ \E c \in SlotsTienda : ExisteCompra(c)
    \/ \E c \in SlotsTienda : BeginReemplazo(c)
    \/ \E c \in SlotsTienda : BorrarDetalles(c)
    \/ \E c \in SlotsTienda : ExisteProducto(c)
    \/ \E c \in SlotsTienda : InsertarReemplazo(c)
    \/ \E c \in SlotsTienda : ActualizarTotal(c)
    \/ \E c \in SlotsTienda : CommitReemplazo(c)
    \/ \E c \in SlotsTienda : FallaSentenciaReemplazo(c)
    \/ ActualizarProducto(PreciosAdmin, StocksAdmin, ActivosAdmin)

Spec == Init /\ [][Next]_vars

\* C4: every persisted order's total equals the sum of the subtotals of its
\* line items.
C4_TotalIgualSumaSubtotales ==
    \A id \in DOMAIN compras :
        compras[id].total = SumaSubtotales(DetallesDe(detalle_compra, id))

\* C7: the stock of every product is at least zero.
C7_StockNoNegativo ==
    \A p \in DOMAIN productos : productos[p].stock >= 0

----------------------------------------------------------------------------
(* C11 *)

RECURSIVE TotalEsperado(_, _)
\* the sum over the line items of (price in the catalog x quantity)
TotalEsperado(items, catalogo) ==
    IF items = <<>> THEN 0
    ELSE catalogo[Head(items).producto_id].precio * Head(items).cantidad
         + TotalEsperado(Tail(items), catalogo)

\* C11: when a creation request is answered 201, the order it persisted has
\* as total the sum over the submitted line items of the price the product
\* had when the request was made times the quantity, it has one line item
\* per submitted item, and the subtotal of each of its line items is its
\* unit price times its quantity.
C11_TotalYSubtotalesAlCrear ==
    \A c \in DOMAIN pc :
        (Terminado(c) /\ res[c].status = 201)
        => LET id == loc[c].compraId
           IN /\ id \in DOMAIN compras
              /\ compras[id].total = TotalEsperado(ItemsDe(c), antes[c].productos)
              /\ Cardinality(DetallesDe(detalle_compra, id)) = Len(ItemsDe(c))
              /\ \A d \in DetallesDe(detalle_compra, id) :
                    d.subtotal = d.precio_unitario * d.cantidad

\* an order of two units of product 1 (price 1) and one unit of product 2
\* (price 2) has been committed with total 4
C11_Witness ==
    \E c \in DOMAIN pc :
        /\ Terminado(c) /\ res[c].status = 201
        /\ ItemsDe(c) = <<Item(1, 2), Item(2, 1)>>
        /\ compras[loc[c].compraId].total = 4
        /\ \E d \in DetallesDe(detalle_compra, loc[c].compraId) :
              d.cantidad = 2 /\ d.subtotal = 2

----------------------------------------------------------------------------
(* SpecAdmin: the requests of the vendor panel (and the public product     *)
(* list), each answered before the next one is sent, on a database that    *)
(* holds two orders; no order is being created or having its line items    *)
(* replaced meanwhile.                                                     *)

\* the second order the database holds: two units of product 1 and one of
\* product 2, paid by transfer
SegundaCompra ==
    [comprador_nombre |-> "Leo", comprador_telefono |-> Algo("555"),
     comprador_mesa |-> Nada, metodo_pago |-> "transferencia",
     comprobante_archivo |-> Algo(LargoComprobante([size |-> TamMaxArchivo,
                                                    mimetypeLen |-> Len("image/jpeg")])),
     total |-> 4, abonado |-> TRUE, listo |-> FALSE, entregado |-> FALSE]
DetallesSegunda ==
    {[id |-> 2, compra_id |-> 2, producto_id |-> 1, cantidad |-> 2,
      precio_unitario |-> 1, subtotal |-> 2],
     [id |-> 3, compra_id |-> 2, producto_id |-> 2, cantidad |-> 1,
      precio_unitario |-> 2, subtotal |-> 2]}

DosCompras == (1 :> CompraPrevia) @@ (2 :> SegundaCompra)
DetallesDosCompras == {DetallePrevio} \cup DetallesSegunda

\* no token (or an invalid one); a valid token of a user without permissions
CredSinToken == Credencial(FALSE, Permisos)
CredSinPermisos == Credencial(TRUE, {})
Credenciales == {CredAdmin, CredSinToken, CredSinPermisos}

\* the requests of one route: every body with the administrator's
\* credential, one body with each of the others
Peticiones(Ids, Cuerpos) ==
    {<<CredAdmin, id, b>> : id \in Ids, b \in Cuerpos}
    \cup {<<cred, id, CHOOSE b \in Cuerpos : TRUE>> :
            cred \in Credenciales \ {CredAdmin}, id \in {CHOOSE id \in Ids : TRUE}}

IdsCompraPedidos == {1, IdInexistente}
IdsProductoPedidos == {1, IdInexistente}

\* abonado absent, a boolean or a string, alone; listo or entregado with an
\* abonado that is absent or a string
CuerposEstado ==
    {CuerpoEstado(a, Nada, Nada) :
        a \in {Nada, Algo(JsBool(TRUE)), Algo(JsBool(FALSE)), Algo(JsStr("true"))}}
    \cup {CuerpoEstado(a, l[1], l[2]) :
            a \in {Nada, Algo(JsStr("true"))},
            l \in {<<Algo(JsBool(TRUE)), Nada>>, <<Nada, Algo(JsBool(TRUE))>>}}

\* nothing, the name or the phone, without table; a table in range, zero or
\* above the range, alone or with a name
CuerposCompra ==
    {CuerpoCompra(n[1], n[2], Nada) :
        n \in {<<Nada, Nada>>, <<Algo("Ana"), Nada>>, <<Nada, Algo("444")>>}}
    \cup {CuerpoCompra(Nada, Nada, m) :
            m \in {Algo(0), Algo(5), Algo(MesaMaxEdicion + 1)}}
    \cup {CuerpoCompra(Algo("Ana"), Nada, Algo(5))}

\* nothing, one of price, stock and availability, or the three
CuerposProducto ==
    {CuerpoProducto(Nada, Nada, Nada), CuerpoProducto(Algo(2), Nada, Nada),
     CuerpoProducto(Nada, Algo(0), Nada), CuerpoProducto(Nada, Nada, Algo(FALSE)),
     CuerpoProducto(Algo(2), Algo(0), Algo(FALSE))}

CuerposNuevoProducto ==
    {CuerpoNuevoProducto(n, Algo("bebidas"), pr, Nada, Nada) :
        n \in {Nada, Algo("Te")}, pr \in {Nada, Algo(1)}}

InitAdmin ==
    /\ productos = [p \in IdsProducto |-> [precio |-> p, stock |-> MaxStock, activo |-> TRUE]]
    /\ compras = DosCompras
    /\ detalle_compra = DetallesDosCompras
    /\ seqCompras = 2
    /\ seqDetalle = 3
    /\ pc = <<>>
    /\ req = <<>>
    /\ loc = <<>>
    /\ tx = <<>>
    /\ res = <<>>
    /\ antes = <<>>
    /\ falloEn = <<>>
    /\ stockInicial = [p \in IdsProducto |-> productos[p].stock]
    /\ bitacora = <<>>
    /\ SinSesion

NextAdmin ==
    \/ \E q \in Peticiones(IdsCompraPedidos, CuerposEstado) : PatchEstado(q[1], q[2], q[3])
    \/ \E q \in Peticiones(IdsCompraPedidos, CuerposCompra) : PutCompra(q[1], q[2], q[3])
    \/ \E q \in Peticiones(IdsCompraPedidos, {SinCuerpo}) : DeleteCompra(q[1], q[2])
    \/ \E q \in Peticiones(IdsCompraPedidos, {SinCuerpo}) : GetCompra(q[1], q[2])
    \/ \E cred \in Credenciales : GetCompras(cred)
    \/ \E q \in Peticiones({0}, CuerposNuevoProducto) : PostProducto(q[1], q[3])
    \/ \E q \in Peticiones(IdsProductoPedidos, CuerposProducto) : PutProducto(q[1], q[2], q[3])
    \/ \E q \in Peticiones(IdsProductoPedidos, {SinCuerpo}) : DeleteProducto(q[1], q[2])
    \/ \E cred \in Credenciales : GetProductos(cred)

SpecAdmin == InitAdmin /\ [][NextAdmin]_vars

\* the last administrative request answered
Ultima == bitacora[Len(bitacora)]

----------------------------------------------------------------------------
(* C12 *)

\* C12: whatever product updates and product soft-deletions (and other
\* requests of the vendor panel) have been answered, every line item that
\* exists has the unit price and subtotal it had, and every order that exists
\* has the total it had.
C12_PreciosDeLineasCongelados ==
    /\ \A d \in detalle_compra : d \in DetallesDosCompras
    /\ \A id \in DOMAIN compras : compras[id].total = DosCompras[id].total

\* the price of product 1 was changed to 2 and the product then soft-deleted,
\* and its line items still carry the unit price 1
C12_Witness ==
    /\ Len(bitacora) = 2
    /\ bitacora[1].op = "put_producto" /\ bitacora[1].status = 200
    /\ bitacora[2].op = "delete_producto" /\ bitacora[2].status = 200
    /\ productos[1].precio = 2 /\ ~productos[1].activo
    /\ \E d \in detalle_compra : d.producto_id = 1 /\ d.precio_unitario = 1

----------------------------------------------------------------------------
(* C13 *)

\* an order row with its status flags blanked
SinEstado(fila) == [fila EXCEPT !.abonado = FALSE, !.listo = FALSE, !.entregado = FALSE]

\* the value of a flag after a request: the one supplied as a boolean, or the
\* previous one
FlagTras(previo, x) == IF EsBooleano(x) THEN x[1].v ELSE previo

\* C13: a step that answers a status update changes, in the order it names
\* and only when it is answered 200, exactly the flags the body supplies as
\* booleans, to the values supplied; every other flag and field of that
\* order, every other order, every line item and every product are unchanged.
C13_EstadoSoloCambiaLoSuministrado ==
    [][(Len(bitacora') = Len(bitacora) + 1
        /\ bitacora'[Len(bitacora')].op = "patch_estado")
       => LET e == bitacora'[Len(bitacora')]
          IN /\ productos' = productos
             /\ detalle_compra' = detalle_compra
             /\ DOMAIN compras' = DOMAIN compras
             /\ \A id \in DOMAIN compras :
                   (id # e.id \/ e.status # 200) => compras'[id] = compras[id]
             /\ e.status = 200 =>
                   /\ SinEstado(compras'[e.id]) = SinEstado(compras[e.id])
                   /\ compras'[e.id].abonado = FlagTras(compras[e.id].abonado, e.body.abonado)
                   /\ compras'[e.id].listo = FlagTras(compras[e.id].listo, e.body.listo)
                   /\ compras'[e.id].entregado =
                         FlagTras(compras[e.id].entregado, e.body.entregado)]_vars

\* a status update of order 1 that supplied listo = true and abonado as the
\* string "true" was answered 200: listo is set, abonado is as it was
C13_Witness ==
    /\ Len(bitacora) = 1
    /\ Ultima.op = "patch_estado" /\ Ultima.status = 200 /\ Ultima.id = 1
    /\ Ultima.body.abonado # Nada /\ ~EsBooleano(Ultima.body.abonado)
    /\ EsBooleano(Ultima.body.listo)
    /\ compras[1].listo /\ ~compras[1].abonado /\ ~compras[1].entregado
    /\ compras[2] = SegundaCompra

----------------------------------------------------------------------------
(* C14 *)

\* C14: when two status updates of the same order that both supply abonado
\* as a boolean are answered 200 one right after the other, the flag is the
\* value of the second; and when the second supplies nothing else and the
\* same value as the first, it leaves the order as the first left it.
C14_AbonadoUltimaEscrituraGana ==
    \A i \in 1..(Len(bitacora) - 1) :
        LET a == bitacora[i]
            b == bitacora[i + 1]
        IN (/\ i + 1 = Len(bitacora)
            /\ a.op = "patch_estado" /\ b.op = "patch_estado"
            /\ a.status = 200 /\ b.status = 200 /\ a.id = b.id
            /\ EsBooleano(a.body.abonado) /\ EsBooleano(b.body.abonado))
           => /\ compras[b.id].abonado = b.body.abonado[1].v
              /\ (/\ b.body.abonado[1].v = a.body.abonado[1].v
                  /\ ~EsBooleano(b.body.listo) /\ ~EsBooleano(b.body.entregado))
                 => b.datos = a.datos /\ compras[b.id] = a.datos[1]

\* abonado of order 1 was set to true and then to false: it is false
C14_Witness ==
    /\ Len(bitacora) = 2
    /\ bitacora[1].op = "patch_estado" /\ bitacora[2].op = "patch_estado"
    /\ bitacora[1].status = 200 /\ bitacora[2].status = 200
    /\ bitacora[1].id = 1 /\ bitacora[2].id = 1
    /\ EsBooleano(bitacora[1].body.abonado) /\ EsBooleano(bitacora[2].body.abonado)
    /\ bitacora[1].body.abonado[1].v /\ ~bitacora[2].body.abonado[1].v
    /\ ~compras[1].abonado

----------------------------------------------------------------------------
(* SpecReemplazo: one replacement of the line items of an order, statement *)
(* by statement, on a database that holds two orders, with nothing else    *)
(* writing to it while the request runs.                                   *)

\* line items as the request may carry them: a subtotal that is a number, a
\* numeric string or a string that is no number
ItemsReemplazoLibres ==
    {ItemReemplazo(p, MaxStock + 1, 1, st) :
        p \in {1, IdInexistente},
        st \in {JsNum(SubtotalLibre), JsStr(<<"7">>), JsStr(<<"7", "x">>)}}

CuerposReemplazo ==
    {Nada, Algo(<<>>)} \cup
    {Algo(l) : l \in UNION {[1..n -> ItemsReemplazoLibres] : n \in 1..MaxItems}}

PedidosSoloReemplazo ==
    {PedidoReemplazarCon(q[1], q[2], q[3]) :
        q \in Peticiones({1, 2, IdInexistente}, CuerposReemplazo)}

SlotsReemplazo == {1}

InitReemplazo ==
    /\ productos = [p \in IdsProducto |-> [precio |-> p, stock |-> MaxStock, activo |-> TRUE]]
    /\ compras = DosCompras
    /\ detalle_compra = DetallesDosCompras
    /\ seqCompras = 2
    /\ seqDetalle = 3
    /\ pc = [c \in SlotsReemplazo |-> "idle"]
    /\ req = [c \in SlotsReemplazo |-> SinPedido]
    /\ loc = [c \in SlotsReemplazo |-> SinLocales]
    /\ tx = [c \in SlotsReemplazo |-> SinTx]
    /\ res = [c \in SlotsReemplazo |-> SinRespuesta]
    /\ antes = [c \in SlotsReemplazo |-> Instantanea]
    /\ falloEn = [c \in SlotsReemplazo |-> NingunFallo]
    /\ stockInicial = [p \in IdsProducto |-> productos[p].stock]
    /\ bitacora = <<>>
    /\ SinSesion

NextReemplazo ==
    \/ \E c \in SlotsReemplazo : IniciarReemplazo(c, PedidosSoloReemplazo)
    \/ \E c \in SlotsReemplazo : ExisteCompra(c)
    \/ \E c \in SlotsReemplazo : BeginReemplazo(c)
    \/ \E c \in SlotsReemplazo : BorrarDetalles(c)
    \/ \E c \in SlotsReemplazo : ExisteProducto(c)
    \/ \E c \in SlotsReemplazo : InsertarReemplazo(c)
    \/ \E c \in SlotsReemplazo : ActualizarTotal(c)
    \/ \E c \in SlotsReemplazo : CommitReemplazo(c)
    \/ \E c \in SlotsReemplazo : FallaSentenciaReemplazo(c)
    \/ \E c \in SlotsReemplazo : Rollback(c)

SpecReemplazo == InitReemplazo /\ [][NextReemplazo]_vars

----------------------------------------------------------------------------
(* C15 *)

ReemplazoTerminado(c) == pc[c] = "done" /\ req[c].tipo = "reemplazar"

RECURSIVE FilasEnOrden(_)
\* the line items of a set of rows, in the order of their ids
FilasEnOrden(filas) ==
    IF filas = {} THEN <<>>
    ELSE LET f == CHOOSE x \in filas : \A y \in filas : x.id <= y.id
         IN <<[producto_id |-> f.producto_id, cantidad |-> f.cantidad,
               precio_unitario |-> f.precio_unitario, subtotal |-> f.subtotal]>>
            \o FilasEnOrden(filas \ {f})

\* the submitted line items, their subtotals as numbers
ListaSuministrada(c) ==
    LET l == req[c].productos[1]
    IN [i \in 1..Len(l) |->
          [producto_id |-> l[i].producto_id, cantidad |-> l[i].cantidad,
           precio_unitario |-> l[i].precio_unitario,
           subtotal |-> ANumerico(l[i].subtotal)[1]]]

RECURSIVE SumaDeLista(_)
SumaDeLista(l) == IF l = <<>> THEN 0 ELSE Head(l).subtotal + SumaDeLista(Tail(l))

\* C15: when a replacement of the line items of an order is answered 200,
\* the line items of the order are exactly the submitted ones, in their
\* order, its total is the sum of the submitted subtotals, its other fields
\* are as before, and every other order and all its line items are as before.
C15_ReemplazoExacto ==
    \A c \in DOMAIN pc :
        (ReemplazoTerminado(c) /\ res[c].status = 200)
        => LET id == req[c].id
           IN /\ DOMAIN compras = DOMAIN antes[c].compras
              /\ FilasEnOrden(DetallesDe(detalle_compra, id)) = ListaSuministrada(c)
              /\ compras[id] = [antes[c].compras[id] EXCEPT
                                   !.total = SumaDeLista(ListaSuministrada(c))]
              /\ \A o \in DOMAIN compras \ {id} :
                    /\ compras[o] = antes[c].compras[o]
                    /\ DetallesDe(detalle_compra, o) =
                           DetallesDe(antes[c].detalle_compra, o)
              /\ productos = antes[c].productos

\* the two line items of order 2 (total 4) were replaced by one of subtotal
\* SubtotalLibre: the order has that one line item and that total
C15_Witness ==
    \E c \in DOMAIN pc :
        /\ ReemplazoTerminado(c) /\ res[c].status = 200
        /\ req[c].id = 2
        /\ Len(req[c].productos[1]) = 1
        /\ req[c].productos[1][1].subtotal = JsNum(SubtotalLibre)
        /\ compras[2].total = SubtotalLibre
        /\ Cardinality(DetallesDe(detalle_compra, 2)) = 1
        /\ Cardinality(DetallesDe(detalle_compra, 1)) = 1

----------------------------------------------------------------------------
(* C16 *)

\* the columns of an order that the buyer-info edit does not name
SinComprador(fila) ==
    [k \in DOMAIN fila \ {"comprador_nombre", "comprador_telefono", "comprador_mesa"}
        |-> fila[k]]

\* C16: a buyer-info edit leaves products, line items and every other order
\* as they were; in the order it names it changes no column but name, phone
\* and table, sets each of these three that the request supplies to the
\* supplied value, and leaves each it does not supply at its previous value.
C16_EdicionCompradorFusiona ==
    [][(Len(bitacora') = Len(bitacora) + 1
        /\ bitacora'[Len(bitacora')].op = "put_compra")
       => LET e == bitacora'[Len(bitacora')]
              b == e.body
          IN /\ productos' = productos
             /\ detalle_compra' = detalle_compra
             /\ DOMAIN compras' = DOMAIN compras
             /\ \A id \in DOMAIN compras :
                   (id # e.id \/ e.status # 200) => compras'[id] = compras[id]
             /\ e.status = 200 =>
                   /\ SinComprador(compras'[e.id]) = SinComprador(compras[e.id])
                   /\ compras'[e.id].comprador_nombre =
                         IF b.comprador_nombre = Nada
                         THEN compras[e.id].comprador_nombre
                         ELSE b.comprador_nombre[1]
                   /\ compras'[e.id].comprador_telefono =
                         IF b.comprador_telefono = Nada
                         THEN compras[e.id].comprador_telefono
                         ELSE b.comprador_telefono
                   /\ compras'[e.id].comprador_mesa =
                         IF b.comprador_mesa = Nada
                         THEN compras[e.id].comprador_mesa
                         ELSE b.comprador_mesa]_vars

\* an edit of order 1 that supplied only the phone was answered 200: the
\* phone is the supplied one, name and table are the previous ones
C16_Witness ==
    /\ Len(bitacora) = 1
    /\ Ultima.op = "put_compra" /\ Ultima.status = 200 /\ Ultima.id = 1
    /\ Ultima.body.comprador_nombre = Nada
    /\ Ultima.body.comprador_telefono = Algo("444")
    /\ Ultima.body.comprador_mesa = Nada
    /\ compras[1] = [CompraPrevia EXCEPT !.comprador_telefono = Algo("444")]
    /\ compras[2] = SegundaCompra

----------------------------------------------------------------------------
(* C17 *)

\* C17: a deletion of an order answered 200 removes that order and every
\* line item of it, and leaves every product (its stock included), every
\* other order and every line item of another order exactly as before; a
\* deletion answered otherwise changes nothing.
C17_BorrarCompraSinRestaurarStock ==
    [][(Len(bitacora') = Len(bitacora) + 1
        /\ bitacora'[Len(bitacora')].op = "delete_compra")
       => LET e == bitacora'[Len(bitacora')]
          IN /\ productos' = productos
             /\ e.status = 200 =>
                   /\ e.id \in DOMAIN compras
                   /\ DOMAIN compras' = DOMAIN compras \ {e.id}
                   /\ \A o \in DOMAIN compras' : compras'[o] = compras[o]
                   /\ detalle_compra' = {d \in detalle_compra : d.compra_id # e.id}
             /\ e.status # 200 =>
                   compras' = compras /\ detalle_compra' = detalle_compra]_vars

\* order 1, which holds one unit of product 1, was deleted: order 2 and its
\* two line items are all that is left, and the stock is the initial one
C17_Witness ==
    /\ Len(bitacora) = 1
    /\ Ultima.op = "delete_compra" /\ Ultima.status = 200 /\ Ultima.id = 1
    /\ DOMAIN compras = {2} /\ compras[2] = SegundaCompra
    /\ detalle_compra = DetallesSegunda
    /\ \A p \in IdsProducto : productos[p].stock = stockInicial[p]

----------------------------------------------------------------------------
(* C18 *)

\* C18: no step removes a product id from the catalog; a product deletion
\* answered 200 changes nothing but the availability flag of the product it
\* names, which becomes false; and in every state every line item names a
\* product that is in the catalog.
C18_ProductosNuncaSeBorran ==
    /\ [](\A d \in detalle_compra : d.producto_id \in DOMAIN productos)
    /\ [][/\ DOMAIN productos \subseteq DOMAIN productos'
          /\ (Len(bitacora') = Len(bitacora) + 1
              /\ bitacora'[Len(bitacora')].op = "delete_producto")
             => LET e == bitacora'[Len(bitacora')]
                IN productos' = IF e.status = 200
                                THEN [productos EXCEPT ![e.id].activo = FALSE]
                                ELSE productos]_vars

\* a product was created and then product 1, which the line items of both
\* orders name, was deleted: the catalog holds three products, product 1
\* among them and unavailable, and the line items are all there
C18_Witness ==
    /\ Len(bitacora) = 2
    /\ bitacora[1].op = "post_producto" /\ bitacora[1].status = 201
    /\ Ultima.op = "delete_producto" /\ Ultima.status = 200 /\ Ultima.id = 1
    /\ Cardinality(DOMAIN productos) = Cardinality(IdsProducto) + 1
    /\ 1 \in DOMAIN productos /\ ~productos[1].activo
    /\ detalle_compra = DetallesDosCompras

----------------------------------------------------------------------------
(* SpecPuerta: every route, called with every kind of credential: the      *)
(* requests of the vendor panel answered one at a time, and one order      *)
(* creation or line-item replacement running statement by statement.       *)

\* a valid token of a user that may only view the orders
CredSoloVer == Credencial(TRUE, {"ver_compras"})
CredencialesPuerta == Credenciales \cup {CredSoloVer}


PedidosPuertaCrear ==
    {PedidoCrear(Algo("Ana"), Nada, Nada, Algo("efectivo"), Nada,
                 ProductosArray(<<Item(1, 1)>>))}

PedidosPuertaReemplazo ==
    {PedidoReemplazarCon(cred, 1, Algo(<<ItemReemplazo(1, 1, 1, JsNum(1))>>)) :
        cred \in CredencialesPuerta}

\* the vendor panel sends at most MaxPuerta requests while the order creation
\* or line-item replacement runs
MaxPuerta == 1

\* the requests of one route that the vendor panel may send now
CredencialesAhora == IF Len(bitacora) < MaxPuerta THEN CredencialesPuerta ELSE {}
PeticionesPuerta(id, body) == {<<cred, id, body>> : cred \in CredencialesAhora}

NextPuerta ==
    \/ \E q \in PeticionesPuerta(1, CuerpoEstado(Algo(JsBool(TRUE)), Nada, Nada)) :
          PatchEstado(q[1], q[2], q[3])
    \/ \E q \in PeticionesPuerta(1, CuerpoCompra(Algo("Ana"), Nada, Nada)) :
          PutCompra(q[1], q[2], q[3])
    \/ \E q \in PeticionesPuerta(1, SinCuerpo) : DeleteCompra(q[1], q[2])
    \/ \E q \in PeticionesPuerta(1, SinCuerpo) : GetCompra(q[1], q[2])
    \/ \E cred \in CredencialesAhora : GetCompras(cred)
    \/ \E q \in PeticionesPuerta(0, CuerpoNuevoProducto(Algo("Te"), Algo("bebidas"),
                                                        Algo(1), Nada, Nada)) :
          PostProducto(q[1], q[3])
    \/ \E q \in PeticionesPuerta(1, CuerpoProducto(Algo(2), Nada, Nada)) :
          PutProducto(q[1], q[2], q[3])
    \/ \E q \in PeticionesPuerta(1, SinCuerpo) : DeleteProducto(q[1], q[2])
    \/ \E cred \in CredencialesAhora : GetProductos(cred)
    \/ \E c \in SlotsReemplazo : IniciarCompra(c, PedidosPuertaCrear)
    \/ \E c \in SlotsReemplazo : Begin(c)
    \/ \E c \in SlotsReemplazo : ValidarStock(c)
    \/ \E c \in SlotsReemplazo : CalcularTotal(c)
    \/ \E c \in SlotsReemplazo : InsertarCompra(c)
    \/ \E c \in SlotsReemplazo : LeerPrecio(c)
    \/ \E c \in SlotsReemplazo : InsertarDetalle(c)
    \/ \E c \in SlotsReemplazo : DescontarStock(c)
    \/ \E c \in SlotsReemplazo : CommitCompra(c)
    \/ \E c \in SlotsReemplazo : IniciarReemplazo(c, PedidosPuertaReemplazo)
    \/ \E c \in SlotsReemplazo : ExisteCompra(c)
    \/ \E c \in SlotsReemplazo : BeginReemplazo(c)
    \/ \E c \in SlotsReemplazo : BorrarDetalles(c)
    \/ \E c \in SlotsReemplazo : ExisteProducto(c)
    \/ \E c \in SlotsReemplazo : InsertarReemplazo(c)
    \/ \E c \in SlotsReemplazo : ActualizarTotal(c)
    \/ \E c \in SlotsReemplazo : CommitReemplazo(c)
    \/ \E c \in SlotsReemplazo : Rollback(c)

SpecPuerta == InitReemplazo /\ [][NextPuerta]_vars

----------------------------------------------------------------------------
(* C19 *)

\* the permission each privileged operation asks for
PermisoRequerido ==
    [op \in {"get_compras", "get_compra"} |-> "ver_compras"]
    @@ [op \in {"patch_estado", "put_productos_compra", "put_compra"} |-> "editar_compras"]
    @@ [op \in {"delete_compra"} |-> "eliminar_compras"]
    @@ [op \in {"post_producto", "put_producto", "delete_producto"} |->
            "gestionar_productos"]

\* the credential is a valid token of a user that holds the permission of op
Autorizada(cred, op) == cred.valido /\ PermisoRequerido[op] \in cred.permisos

RechazoDePuerta == {401, 403}

\* C19: a privileged request whose credential is not a valid token with the
\* permission of its route is answered 401 or 403, is given no data and
\* leaves products, orders and line items as they were; a line-item
\* replacement with such a credential ends at once, with no statement run and
\* no transaction open; a product listing is answered 200 with its data
\* whatever the credential, and an order creation, which carries none, is
\* never refused by the gate.
C19_PuertaAntesDeTodoPrivilegiado ==
    /\ [](\A c \in DOMAIN pc :
            /\ (req[c].tipo = "reemplazar"
                /\ ~Autorizada(req[c].cred, "put_productos_compra"))
               => /\ pc[c] = "done"
                  /\ res[c].status \in RechazoDePuerta
                  /\ tx[c] = SinTx
            /\ (req[c].tipo = "crear" /\ pc[c] = "done")
               => res[c].status \notin RechazoDePuerta)
    /\ [][/\ (Len(bitacora') = Len(bitacora) + 1)
             => LET e == bitacora'[Len(bitacora')]
                IN /\ (e.op \in DOMAIN PermisoRequerido /\ ~Autorizada(e.cred, e.op))
                      => /\ e.status \in RechazoDePuerta
                         /\ e.datos = Nada
                         /\ db' = db
                   /\ e.op = "get_productos" => e.status = 200 /\ e.datos # Nada
          /\ \A c \in DOMAIN pc :
                (req'[c] # req[c] /\ req'[c].tipo = "reemplazar"
                 /\ ~Autorizada(req'[c].cred, "put_productos_compra"))
                => db' = db]_vars

\* an order deletion by a user that may only view was answered 403 and a
\* line-item replacement by a user without permissions ended with 403:
\* orders and line items are the initial ones
C19_Witness ==
    /\ Len(bitacora) = 1
    /\ Ultima.op = "delete_compra" /\ Ultima.cred = CredSoloVer /\ Ultima.status = 403
    /\ \E c \in DOMAIN pc :
          /\ req[c].tipo = "reemplazar" /\ req[c].cred = CredSinPermisos
          /\ pc[c] = "done" /\ res[c].status = 403
    /\ compras = DosCompras /\ detalle_compra = DetallesDosCompras

----------------------------------------------------------------------------
(* C20 *)

\* the request of slot c names an order that is not there, or its first
\* replacement item names a product that is not there
ReferenciaDesconocida(c) ==
    \/ req[c].id \notin DOMAIN antes[c].compras
    \/ /\ req[c].productos # Nada
       /\ Len(req[c].productos[1]) > 0
       /\ req[c].productos[1][1].producto_id \notin DOMAIN antes[c].productos

\* C20: a line-item replacement that passed the gate, met no failing
\* statement and names an unknown order, or an unknown product in its first
\* item, is answered 404.
C20_DesconocidoEs404 ==
    \A c \in DOMAIN pc :
        (/\ ReemplazoTerminado(c)
         /\ Autorizada(req[c].cred, "put_productos_compra")
         /\ falloEn[c] = NingunFallo
         /\ ReferenciaDesconocida(c))
        => res[c].status = 404

----------------------------------------------------------------------------
(* C21 *)

\* the rejections a handler decides from what the request says
RechazosDeValidacion ==
    {"producto_no_existe", "stock_insuficiente", "archivo_grande",
     "producto_no_encontrado"}

\* the transaction has issued no INSERT, UPDATE or DELETE that changed a row
SinEscrituras(t) ==
    /\ t.prod = <<>> /\ t.compras = <<>> /\ t.detalle = {}
    /\ t.borrados = {} /\ t.totales = <<>>

\* C21: whenever an order creation or a line-item replacement rejects its
\* request for what the request says (an unknown or unavailable product,
\* stock that does not cover a quantity, a receipt that is too large), its
\* transaction has written nothing yet: validation is over before the first
\* mutating statement.
C21_ValidacionAntesDeMutar ==
    [][\A c \in DOMAIN pc :
          (/\ loc'[c].pendiente # loc[c].pendiente
           /\ loc'[c].pendiente.mensaje \in RechazosDeValidacion)
          => SinEscrituras(tx[c])]_vars

----------------------------------------------------------------------------
(* C22 *)

\* C22: whenever an order creation inserts a line item, the unit price it
\* stores on it is the price it read for that item when it computed the
\* total of the order.
C22_PrecioDeLineaEsElDelTotal ==
    [][\A c \in DOMAIN pc :
          (pc[c] = "ins_detalle" /\ pc'[c] = "upd_stock")
          => \E d \in tx'[c].detalle \ tx[c].detalle :
                d.precio_unitario = loc[c].leidos[loc[c].i]]_vars

----------------------------------------------------------------------------
(* C23 *)

\* C23: when a line-item replacement ends with anything but 200, wherever it
\* failed, orders (their totals included), line items and products are
\* exactly what they were when the request arrived.
C23_ReemplazoTodoONada ==
    \A c \in DOMAIN pc :
        (ReemplazoTerminado(c) /\ res[c].status # 200)
        => /\ compras = antes[c].compras
           /\ detalle_compra = antes[c].detalle_compra
           /\ productos = antes[c].productos

\* a replacement of the two line items of order 2 by two others deleted the
\* old ones, inserted the first new one and failed at the second, which
\* names an unknown product: order 2 has its two line items and its total
C23_Witness ==
    \E c \in DOMAIN pc :
        /\ ReemplazoTerminado(c) /\ res[c].status = 500
        /\ req[c].id = 2
        /\ req[c].productos # Nada /\ Len(req[c].productos[1]) = 2
        /\ req[c].productos[1][1].producto_id \in DOMAIN productos
        /\ req[c].productos[1][2].producto_id \notin DOMAIN productos
        /\ falloEn[c] = NingunFallo
        /\ DetallesDe(detalle_compra, 2) = DetallesSegunda
        /\ compras[2] = SegundaCompra

----------------------------------------------------------------------------
(* C24 *)

\* the replacement of slot c names an order and products that exist, carries
\* subtotals that are numbers, and met no failing statement
ReemplazoValido(c) ==
    /\ req[c].id \in DOMAIN antes[c].compras
    /\ req[c].productos # Nada /\ Len(req[c].productos[1]) > 0
    /\ \A i \in 1..Len(req[c].productos[1]) :
          /\ req[c].productos[1][i].producto_id \in DOMAIN antes[c].productos
          /\ ANumerico(req[c].productos[1][i].subtotal) # Nada
    /\ falloEn[c] = NingunFallo

\* C24: while a line-item replacement runs and after it ends, every product
\* is as it was when the request arrived and the transaction holds no write
\* of a product; the replacement is never answered with insufficient stock,
\* and one that is authorized and valid is answered 200 whatever its
\* quantities.
C24_ReemplazoNoTocaStock ==
    \A c \in DOMAIN pc :
        req[c].tipo = "reemplazar"
        => /\ productos = antes[c].productos
           /\ tx[c].prod = <<>>
           /\ res[c].mensaje # "stock_insuficiente"
           /\ loc[c].pendiente.mensaje # "stock_insuficiente"
           /\ (pc[c] = "done" /\ ReemplazoValido(c)
               /\ Autorizada(req[c].cred, "put_productos_compra"))
              => res[c].status = 200

\* a replacement whose line item asks for more units of product 1 than its
\* stock holds was answered 200, and the stock of product 1 is what it was
C24_Witness ==
    \E c \in DOMAIN pc :
        /\ ReemplazoTerminado(c) /\ res[c].status = 200
        /\ req[c].productos[1][1].producto_id = 1
        /\ req[c].productos[1][1].cantidad > productos[1].stock
        /\ productos[1].stock = stockInicial[1]
        /\ \E d \in DetallesDe(detalle_compra, req[c].id) :
              d.cantidad > productos[d.producto_id].stock

----------------------------------------------------------------------------
(* C25 *)

\* C25: every persisted line item has a quantity of at least 1.
C25_CantidadAlMenosUno ==
    \A d \in detalle_compra : d.cantidad >= 1

----------------------------------------------------------------------------
(* C26 *)

\* C26: the table number of every persisted order is absent or lies in
\* MesaMin..MesaMax.
C26_MesaEnRango ==
    \A id \in DOMAIN compras :
        \/ compras[id].comprador_mesa = Nada
        \/ compras[id].comprador_mesa[1] \in MesaMin..MesaMax

----------------------------------------------------------------------------
(* SpecDosReemplazos: two line-item replacements of order 2 run at once,   *)
(* statement by statement, each in its transaction.                        *)

SlotsDosReemplazos == {1, 2}

\* the request of slot c: a list of its own, of one line item or more
PedidosDeSlot(c) ==
    {PedidoReemplazar(2, Algo([i \in 1..n |-> ItemReemplazo(c, i, 1, JsNum(i))])) :
        n \in 1..MaxItems}

InitDosReemplazos ==
    /\ productos = [p \in IdsProducto |-> [precio |-> p, stock |-> MaxStock, activo |-> TRUE]]
    /\ compras = DosCompras
    /\ detalle_compra = DetallesDosCompras
    /\ seqCompras = 2
    /\ seqDetalle = 3
    /\ pc = [c \in SlotsDosReemplazos |-> "idle"]
    /\ req = [c \in SlotsDosReemplazos |-> SinPedido]
    /\ loc = [c \in SlotsDosReemplazos |-> SinLocales]
    /\ tx = [c \in SlotsDosReemplazos |-> SinTx]
    /\ res = [c \in SlotsDosReemplazos |-> SinRespuesta]
    /\ antes = [c \in SlotsDosReemplazos |-> Instantanea]
    /\ falloEn = [c \in SlotsDosReemplazos |-> NingunFallo]
    /\ stockInicial = [p \in IdsProducto |-> productos[p].stock]
    /\ bitacora = <<>>
    /\ SinSesion

NextDosReemplazos ==
    \/ \E c \in SlotsDosReemplazos : IniciarReemplazo(c, PedidosDeSlot(c))
    \/ \E c \in SlotsDosReemplazos : ExisteCompra(c)
    \/ \E c \in SlotsDosReemplazos : BeginReemplazo(c)
    \/ \E c \in SlotsDosReemplazos : BorrarDetalles(c)
    \/ \E c \in SlotsDosReemplazos : ReanudarBorrado(c)
    \/ \E c \in SlotsDosReemplazos : ExisteProducto(c)
    \/ \E c \in SlotsDosReemplazos : InsertarReemplazo(c)
    \/ \E c \in SlotsDosReemplazos : ActualizarTotal(c)
    \/ \E c \in SlotsDosReemplazos : CommitReemplazo(c)
    \/ \E c \in SlotsDosReemplazos : FallaSentenciaReemplazo(c)
    \/ \E c \in SlotsDosReemplazos : Rollback(c)

SpecDosReemplazos == InitDosReemplazos /\ [][NextDosReemplazos]_vars

----------------------------------------------------------------------------
(* C27 *)

\* C27: when two replacements of the line items of the same order have both
\* been answered 200, the line items of the order are those of one of the
\* two submitted lists and the total of the order is the sum of their
\* subtotals.
C27_DosReemplazosUnoGana ==
    (\A c \in DOMAIN pc : ReemplazoTerminado(c) /\ res[c].status = 200)
    => /\ \E c \in DOMAIN pc :
             FilasEnOrden(DetallesDe(detalle_compra, req[c].id)) = ListaSuministrada(c)
       /\ \A c \in DOMAIN pc :
             compras[req[c].id].total =
                 SumaSubtotales(DetallesDe(detalle_compra, req[c].id))

----------------------------------------------------------------------------
(* C28 *)

\* the positions of the line items of request c that name product p
LineasDe(c, p) == {i \in 1..Len(ItemsDe(c)) : ItemsDe(c)[i].producto_id = p}

\* C28: a creation request that passes the field validation, none of whose
\* statements the database rejects and whose line items all name active
\* products, and that names some product in more than one line item, is
\* answered 201 only if the stock that product had was at least the sum of the
\* quantities of those line items; otherwise it is answered 400
\* insufficient-stock and the tables are as they were before the request.
C28_ProductoRepetidoSumaCantidades ==
    \A c \in DOMAIN pc :
        (/\ Terminado(c) /\ PasaValidacion(c) /\ SinFallo(c)
         /\ \A i \in 1..Len(ItemsDe(c)) : ItemDisponible(c, ItemsDe(c)[i]))
        => \A p \in DOMAIN antes[c].productos :
              Cardinality(LineasDe(c, p)) > 1
              => IF antes[c].productos[p].stock >= CantidadPedida(ItemsDe(c), p)
                 THEN TRUE
                 ELSE /\ res[c] = Respuesta(400, "stock_insuficiente")
                      /\ SinCambios(c)

----------------------------------------------------------------------------
(* SpecRespuesta: one order creation or one line-item replacement, whose    *)
(* connection to the database may be lost at any statement.                 *)

\* The connection of the client is lost while the handler awaits a statement
\* of the try block or the ROLLBACK of the catch block.  The server ends the
\* transaction with the connection.  The awaited query rejects, the catch
\* block awaits client.query('ROLLBACK'), which rejects as well, so the
\* res.status(500) of the catch block is never reached; finally releases the
\* client and the promise of the handler rejects.  What the framework does
\* with the rejected promise of a handler depends on its version: it is
\* dropped and nothing is sent, or it reaches the error middleware of
\* server.js, which sends 500.
PierdeConexion(c) ==
    /\ pc[c] \in SentenciasCompra \cup SentenciasReemplazo \cup {"rollback"}
    /\ falloEn' = [falloEn EXCEPT ![c] =
                      IF @ = NingunFallo THEN [en |-> pc[c], i |-> loc[c].i] ELSE @]
    /\ tx' = [tx EXCEPT ![c] = SinTx]
    /\ loc' = [loc EXCEPT ![c] = AlTerminar(loc[c])]
    /\ \E enviado \in {SinRespuesta, Respuesta(500, "error_interno")} :
          /\ res' = [res EXCEPT ![c] = enviado]
          /\ pc' = [pc EXCEPT ![c] = IF enviado = SinRespuesta THEN "sin_respuesta" ELSE "done"]
    /\ UNCHANGED <<db, seqCompras, seqDetalle, req, antes, stockInicial, sesion, bitacora>>

\* requests that take the early returns of the validation and requests that
\* reach the transaction
PedidosCrearRespuesta ==
    PedidosTienda \cup
    {PedidoCrear(Algo("Ana"), Nada, Nada, Algo("efectivo"), Nada, ProductosInvalido)}

NextRespuesta ==
    \/ \E c \in SlotsReemplazo : IniciarCompra(c, PedidosCrearRespuesta)
    \/ \E c \in SlotsReemplazo : Begin(c)
    \/ \E c \in SlotsReemplazo : ValidarStock(c)
    \/ \E c \in SlotsReemplazo : CalcularTotal(c)
    \/ \E c \in SlotsReemplazo : InsertarCompra(c)
    \/ \E c \in SlotsReemplazo : LeerPrecio(c)
    \/ \E c \in SlotsReemplazo : InsertarDetalle(c)
    \/ \E c \in SlotsReemplazo : DescontarStock(c)
    \/ \E c \in SlotsReemplazo : CommitCompra(c)
    \/ \E c \in SlotsReemplazo : FallaSentencia(c)
    \/ \E c \in SlotsReemplazo : IniciarReemplazo(c, PedidosReemplazo)
    \/ \E c \in SlotsReemplazo : ExisteCompra(c)
    \/ \E c \in SlotsReemplazo : BeginReemplazo(c)
    \/ \E c \in SlotsReemplazo : BorrarDetalles(c)
    \/ \E c \in SlotsReemplazo : ExisteProducto(c)
    \/ \E c \in SlotsReemplazo : InsertarReemplazo(c)
    \/ \E c \in SlotsReemplazo : ActualizarTotal(c)
    \/ \E c \in SlotsReemplazo : CommitReemplazo(c)
    \/ \E c \in SlotsReemplazo : FallaSentenciaReemplazo(c)
    \/ \E c \in SlotsReemplazo : Rollback(c)
    \/ \E c \in SlotsReemplazo : PierdeConexion(c)

\* every awaited statement settles and the event loop then runs the
\* continuation of the handler: a handler that can take a step takes one
SpecRespuesta == InitReemplazo /\ [][NextRespuesta]_vars /\ WF_vars(NextRespuesta)

----------------------------------------------------------------------------
(* C29 *)

\* C29: every order-creation or line-item-replacement request that has
\* started ends having sent a response, with no transaction open and its
\* client released once.
C29_TerminaConUnaRespuesta ==
    \A c \in SlotsReemplazo :
        (pc[c] # "idle")
        ~> (/\ pc[c] = "done"
            /\ res[c].status # 0
            /\ ~tx[c].activa
            /\ loc[c].liberaciones = 1)

----------------------------------------------------------------------------
(* SpecSesion: the client session from the first load of the page *)

InitSesion ==
    /\ productos = [p \in IdsProducto |-> [precio |-> p, stock |-> MaxStock, activo |-> TRUE]]
    /\ compras = <<>>
    /\ detalle_compra = {}
    /\ seqCompras = 0
    /\ seqDetalle = 0
    /\ pc = [c \in SlotsReemplazo |-> "idle"]
    /\ req = [c \in SlotsReemplazo |-> SinPedido]
    /\ loc = [c \in SlotsReemplazo |-> SinLocales]
    /\ tx = [c \in SlotsReemplazo |-> SinTx]
    /\ res = [c \in SlotsReemplazo |-> SinRespuesta]
    /\ antes = [c \in SlotsReemplazo |-> Instantanea]
    /\ falloEn = [c \in SlotsReemplazo |-> NingunFallo]
    /\ stockInicial = [p \in IdsProducto |-> productos[p].stock]
    /\ bitacora = <<>>
    /\ variante \in {"actual", "anterior"}
    /\ user = Nada
    /\ loading = (variante = "actual")
    /\ localStorage = <<>>
    /\ enVuelo = {}
    /\ ultimo = NingunaOperacion

NextSesion ==
    \/ Restaurar
    \/ \E cred \in CredencialesLogin : LoginEnviar(cred)
    \/ \E cred \in CredencialesLogin : LoginRecibir(cred)
    \/ Logout
    \/ Recargar

SpecSesion == InitSesion /\ [][NextSesion]_vars

----------------------------------------------------------------------------
(* C30 *)

\* C30: in the client session the user in memory is not null only if a token
\* is in localStorage; a login that returned false has left the user, the
\* stored token and the stored user as they were; and after a logout the user
\* is null and neither the token nor the user is in localStorage.
C30_SesionCoherente ==
    /\ user # Nada => "token" \in DOMAIN localStorage
    /\ (ultimo.op = "login" /\ ~ultimo.ok)
       => /\ user = ultimo.userAntes
          /\ localStorage = ultimo.lsAntes
    /\ ultimo.op = "logout"
       => /\ user = Nada
          /\ "token" \notin DOMAIN localStorage
          /\ "user" \notin DOMAIN localStorage

\* a logout has ended a session that had a user in memory and a token and a
\* user in localStorage
C30_Witness ==
    /\ ultimo.op = "logout"
    /\ ultimo.userAntes # Nada
    /\ {"token", "user"} \subseteq DOMAIN ultimo.lsAntes

====
